---- MODULE Spec2Model ----
(***************************************************************************)
(* One I/O shard (server::io_worker) of apiserver2 with its worker pool    *)
(* (thread_pool), its task queues and its response queue (shared_queue),   *)
(* the supervisor's running flag and the clients of the shard.             *)
(*                                                                         *)
(* The I/O thread is single-threaded: every handler (on_connect, on_read   *)
(* with process_request and dispatch_to_worker, on_write, close_connection,*)
(* process_response_queue, check_timeouts) is one atomic action.  The      *)
(* workers run in parallel with it; they meet the I/O thread only in the   *)
(* mutex-protected queues, so a worker has two steps: popping a task and   *)
(* finishing it (execute_handler, then the push of the response).          *)
(***************************************************************************)
EXTENDS Integers, Sequences, FiniteSets, TLC

\* ------------------------------------------------------------------ bounds
NumFds == 3              \* file descriptors the kernel hands out: 1..NumFds
MaxAccepts == 3          \* connections accepted in one run (connection ids)
PoolSize == 2            \* worker_threads_per_io of the shard
QueueCapacity == 1       \* QUEUE_CAPACITY of the configuration
MaxRequests == 3         \* requests the shard processes in one run
MaxCapacity == 2         \* largest capacity of the queue unit
MaxItems == 4            \* pushes onto the queue unit in one run
ResponseSize == 2        \* bytes of a serialized response
TickSeconds == 61        \* seconds that pass in one step of the clock
MaxHeaders == 2          \* header lines of a request given to the parser unit
MaxBody == 1             \* body bytes a client of the parser unit sends
SizeBits == 4            \* width of size_t in the parser unit
MaxTasks == 4            \* tasks pushed to the pool unit in one run
SweepWindow == 1         \* seconds before READ_TIMEOUT that the sweep unit counts one by one
MaxRules == 2            \* rules of the validator given to the validator unit
NumConsumers == 2        \* threads that call wait_and_pop on the queue unit
MaxCalls == 3            \* calls made on the response of the response unit
ChunkSize == 4           \* bytes of one chunk of the buffer unit's socket_buffer
MaxChunks == 4           \* chunks that make the largest socket_buffer of the buffer unit
MaxSent == 6             \* requests the client of the keep-alive unit sends

\* ------------------------------------------------------- program constants
READ_TIMEOUT == 60       \* server.hpp: idle limit in seconds
DefaultCapacity == 0     \* shared_queue(size_t capacity = 0): 0 = unbounded
MAX_PATH_LENGTH == 2048  \* http_request.cpp: longest URI accepted

Fds == 1..NumFds
Ids == 1..MaxAccepts
Workers == 1..PoolSize
Consumers == 1..NumConsumers

Min(a, b) == IF a < b THEN a ELSE b

VARIABLES
    m_num_threads,       \* thread_pool::m_num_threads (workers of the shard)
    m_queue_capacity,    \* server::m_queue_capacity (QUEUE_CAPACITY)
    m_running,           \* server::m_running
    m_connections,       \* io_worker::m_connections: fd -> connection_state
    epoll,               \* kernel: the interest registered for each fd
    m_response_queue,    \* io_worker::m_response_queue
    m_task_queues,       \* thread_pool::m_task_queues
    m_next_queue,        \* thread_pool::m_next_queue (modulo m_num_threads)
    executing,           \* per worker: the task it is running, or NoTask
    io_pc,               \* where the I/O thread is in run()
    events,              \* the batch epoll_wait returned, not yet handled
    accepted,            \* connections accepted so far (next connection id)
    metrics_connections, \* metrics::m_connections
    m_active_threads,    \* metrics::m_active_threads
    ev,                  \* what the last step did (history, for the claims)
    requests,            \* requests process_request has taken so far
    orphans,             \* connections closed while a worker ran their request
    sq,                  \* a shared_queue on its own (the queue unit)
    px,                  \* a request_parser on its own (the parser unit)
    hx,                  \* one request through process_request and execute_handler
    tp,                  \* a thread_pool on its own (the pool unit)
    ia,                  \* one request through handle_internal_api
    vx,                  \* one validator run over one request's input
    rs,                  \* an http::response on its own (the response unit)
    sb,                  \* a socket_buffer filled by handle_socket_read (the buffer unit)
    ka                   \* one keep-alive connection through its request cycles

vars == <<m_num_threads, m_queue_capacity, m_running, m_connections, epoll,
          m_response_queue, m_task_queues, m_next_queue, executing, io_pc,
          events, accepted, metrics_connections, m_active_threads, ev,
          requests, orphans, sq, px, hx, tp, ia, vx, rs, sb, ka>>

\* ------------------------------------------------------------- data types
\* A response: the bytes still to write, and (history) the connection and the
\* request it answers.
NoResponse == [left |-> 0, from |-> 0, rq |-> 0]
\* connection_state; id = 0 means "no entry for this fd in m_connections".
\* idle = seconds since last_activity (capped just above READ_TIMEOUT).
NoConn == [id |-> 0, parser |-> "empty", response |-> NoResponse, idle |-> 0]
NewConn(id) == [id |-> id, parser |-> "empty", response |-> NoResponse, idle |-> 0]
\* A dispatched task captures fd; id, rq and while_running are history: the
\* connection and the request it serves, and m_running when it was pushed.
NoTask == [fd |-> 0, id |-> 0, rq |-> 0, while_running |-> FALSE]
NoEv == [op |-> "none"]

IsOpen(conns, fd) == conns[fd].id # 0

\* ------------------------------------------------------- shared_queue<T>
QueueFull(q, capacity) == capacity > 0 /\ Len(q) >= capacity

\* (mutant) a push that adds the item although it reports the queue full
QueuePushOverflow(q, capacity, item) == Append(q, item)

\* shared_queue::push: the queue afterwards (unchanged when it throws).
QueuePush(q, capacity, item) ==
    IF QueueFull(q, capacity) THEN q ELSE Append(q, item)

\* thread_pool::thread_pool builds every task queue with the default capacity.
TaskQueueCapacity == DefaultCapacity
\* io_worker::io_worker: the response queue gets queue_capacity * 2.
ResponseQueueCapacity == m_queue_capacity * 2

\* thread_pool::get_total_pending_tasks
RECURSIVE SumLen(_, _)
SumLen(qs, n) == IF n = 0 THEN 0 ELSE Len(qs[n]) + SumLen(qs, n - 1)
get_total_pending_tasks == SumLen(m_task_queues, m_num_threads)

\* ------------------------------------------------------------ epoll calls
\* add_to_epoll: EPOLL_CTL_ADD; EEXIST (already registered) is ignored.
add_to_epoll(ep, fd, what) == IF ep[fd] = "none" THEN [ep EXCEPT ![fd] = what] ELSE ep
\* remove_from_epoll: EPOLL_CTL_DEL
remove_from_epoll(ep, fd) == [ep EXCEPT ![fd] = "none"]
\* modify_epoll: EPOLL_CTL_MOD; fails (logged only) when fd is not registered.
modify_epoll(ep, fd, what) == IF ep[fd] = "none" THEN ep ELSE [ep EXCEPT ![fd] = what]

\* connection_state::update_activity
update_activity(c) == [c EXCEPT !.idle = 0]
\* connection_state::reset
reset(c) == [c EXCEPT !.parser = "empty", !.response = NoResponse, !.idle = 0]

\* The lowest free descriptor, as accept4 returns it.
FreeFds(conns) == {fd \in Fds : ~IsOpen(conns, fd)}
LowestFree(conns) == CHOOSE fd \in FreeFds(conns) : \A g \in FreeFds(conns) : fd <= g


\* ------------------------------------------------------ requests (inputs)
\* What a client can send once its bytes are complete: whether finalize()
\* accepts it, its Origin header, its method and its path.
Origins == {"none", "allowed", "ALLOWED", "foreign"}
m_allowed_origins == {"allowed"}
Methods == {"get", "post", "options"}
InternalPaths == {"/ping", "/metrics", "/metricsp", "/version"}
\* The endpoint catalog main() registers (a part of it): method, whether a
\* validator with rules is attached, is_secure.
Catalog ==
    [path \in {"/hello", "/login", "/shippers", "/customer"} |->
       CASE path = "/hello"    -> [method |-> "get",  rules |-> FALSE, is_secure |-> FALSE]
         [] path = "/login"    -> [method |-> "post", rules |-> TRUE,  is_secure |-> FALSE]
         [] path = "/shippers" -> [method |-> "get",  rules |-> FALSE, is_secure |-> TRUE]
         [] path = "/customer" -> [method |-> "post", rules |-> TRUE,  is_secure |-> TRUE]]
m_routes == DOMAIN Catalog
Paths == {"/ping", "/hello", "/nowhere"}
Requests == [wellformed : BOOLEAN, origin : Origins, method : Methods, path : Paths]

\* cors::is_origin_allowed
is_origin_allowed(origin) == origin = "none" \/ origin \in m_allowed_origins

\* (mutant) process_request without the test of finalize()'s result
RouteUnchecked(req) ==
    IF ~is_origin_allowed(req.origin) THEN "cors403"
    ELSE IF req.method = "options" THEN "options204"
    ELSE IF req.path \in InternalPaths THEN "builtin"
    ELSE IF req.path \notin m_routes THEN "notfound404"
    ELSE "dispatch"

\* (mutant) process_request answering the preflight before the CORS check
RouteOptionsFirst(req) ==
    IF ~req.wellformed THEN "parse400"
    ELSE IF req.method = "options" THEN "options204"
    ELSE IF ~is_origin_allowed(req.origin) THEN "cors403"
    ELSE IF req.path \in InternalPaths THEN "builtin"
    ELSE IF req.path \notin m_routes THEN "notfound404"
    ELSE "dispatch"

\* (mutant) process_request dispatching without a look at find_handler's result
RouteUnregistered(req) ==
    IF ~req.wellformed THEN "parse400"
    ELSE IF ~is_origin_allowed(req.origin) THEN "cors403"
    ELSE IF req.method = "options" THEN "options204"
    ELSE IF req.path \in InternalPaths THEN "builtin"
    ELSE "dispatch"

\* The branch process_request takes for a request, in the code's order.
Route(req) ==
    IF ~req.wellformed THEN "parse400"
    ELSE IF ~is_origin_allowed(req.origin) THEN "cors403"
    ELSE IF req.method = "options" THEN "options204"
    ELSE IF req.path \in InternalPaths THEN "builtin"
    ELSE IF req.path \notin m_routes THEN "notfound404"
    ELSE "dispatch"

\* Requests that differ in nothing process_request looks at form one class:
\* whether finalize() succeeds, and the branch taken.
RequestClasses == {[ok |-> req.wellformed, path |-> Route(req)] : req \in Requests}

\* ------------------------------------------------------------------- Init
InitWith(pool_size, queue_capacity) ==
    /\ m_num_threads = pool_size
    /\ m_queue_capacity = queue_capacity
    /\ m_running = TRUE
    /\ m_connections = [fd \in Fds |-> NoConn]
    /\ epoll = [fd \in Fds |-> "none"]
    /\ m_response_queue = <<>>
    /\ m_task_queues = [w \in Workers |-> <<>>]
    /\ m_next_queue = 0
    /\ executing = [w \in Workers |-> NoTask]
    /\ io_pc = "wait"
    /\ events = [fds |-> {}, listen |-> FALSE]
    /\ accepted = 0
    /\ metrics_connections = 0
    /\ m_active_threads = 0
    /\ ev = NoEv
    /\ requests = 0
    /\ orphans = {}

\* The parser, request and pool units at rest.
NoParser == [stage |-> "none"]
NoHandler == [stage |-> "none"]
NoPool == [stage |-> "none"]
NoInternal == [stage |-> "none"]
NoValidation == [stage |-> "none"]
NoResponseUnit == [stage |-> "none"]
NoBuffer == [stage |-> "none"]
NoKeepAlive == [stage |-> "none"]
MoreAtRest ==
    /\ ia = NoInternal /\ vx = NoValidation /\ rs = NoResponseUnit
    /\ sb = NoBuffer /\ ka = NoKeepAlive
UnitsAtRest == px = NoParser /\ hx = NoHandler /\ tp = NoPool /\ MoreAtRest

\* The queue unit at rest (the shard's own queues are the variables above).
NoQueue == [capacity |-> 0, queue |-> <<>>, m_stopped |-> FALSE, next |-> 1,
            rejected |-> {}, popped |-> {}, before |-> <<>>, last |-> "none",
            waiting |-> {}, notified |-> {}, out |-> <<>>, at_stop |-> <<>>,
            out_at_stop |-> 0]

Init == InitWith(PoolSize, QueueCapacity) /\ sq = NoQueue /\ UnitsAtRest

\* Scenario "back-pressure shedding": POOL_SIZE=1, QUEUE_CAPACITY=2.
InitScenario6 == InitWith(1, 2) /\ sq = NoQueue /\ UnitsAtRest

Config == <<m_num_threads, m_queue_capacity>>
More == <<ia, vx, rs, sb, ka>>
Units == <<sq, px, hx, tp, More>>
Ghost == <<requests, orphans, Units>>
PoolVars == <<m_task_queues, m_next_queue, executing, m_active_threads>>

\* ---------------------------------------------------------- the I/O thread
\* run(): the test of m_running at the top of the loop, then epoll_wait.  The
\* batch is any set of registered descriptors (a client sent bytes, hung up,
\* or its socket is writable) and possibly the listening socket.
EpollWait ==
    /\ io_pc = "wait"
    /\ m_running
    /\ \E S \in SUBSET {fd \in Fds : epoll[fd] # "none"}, l \in BOOLEAN :
         /\ l => (accepted < MaxAccepts /\ FreeFds(m_connections) # {})
         /\ events' = [fds |-> S, listen |-> l]
    /\ io_pc' = "events"
    /\ ev' = NoEv
    /\ UNCHANGED <<Config, m_running, m_connections, epoll, m_response_queue,
                   PoolVars, accepted, metrics_connections, Ghost>>

\* on_connect: accept4 until EAGAIN; n connections were pending.
RECURSIVE AcceptN(_, _, _, _)
AcceptN(conns, ep, id, n) ==
    IF n = 0 THEN [conns |-> conns, ep |-> ep]
    ELSE LET fd == LowestFree(conns)
         IN AcceptN([conns EXCEPT ![fd] = NewConn(id + 1)],
                    add_to_epoll(ep, fd, "in"), id + 1, n - 1)

OnConnect ==
    /\ io_pc = "events"
    /\ events.listen
    /\ \E n \in 1..Min(MaxAccepts - accepted, Cardinality(FreeFds(m_connections))) :
         LET r == AcceptN(m_connections, epoll, accepted, n)
         IN /\ m_connections' = r.conns
            /\ epoll' = r.ep
            /\ accepted' = accepted + n
            /\ metrics_connections' = metrics_connections + n
    /\ events' = [events EXCEPT !.listen = FALSE]
    /\ ev' = NoEv
    /\ UNCHANGED <<Config, m_running, m_response_queue, PoolVars, io_pc, Ghost>>

\* The connections whose request a worker is executing.
Running == {executing[w].id : w \in Workers} \ {0}

\* (mutant) close_connection that erases the entry and leaves the gauge alone
CloseConnectionKeepsGauge(fd) ==
    /\ m_connections' = [m_connections EXCEPT ![fd] = NoConn]
    /\ epoll' = [epoll EXCEPT ![fd] = "none"]
    /\ metrics_connections' = metrics_connections
    /\ orphans' = orphans \cup (Running \cap {m_connections[fd].id})

\* close_connection: close(fd) (which also drops the epoll registration),
\* erase the entry, decrement the gauge if an entry was erased.
CloseConnection(fd) ==
    /\ m_connections' = [m_connections EXCEPT ![fd] = NoConn]
    /\ epoll' = [epoll EXCEPT ![fd] = "none"]
    /\ metrics_connections' =
         IF IsOpen(m_connections, fd) THEN metrics_connections - 1
         ELSE metrics_connections
    /\ orphans' = orphans \cup (Running \cap {m_connections[fd].id})

\* run(): an event with EPOLLERR, EPOLLHUP or EPOLLRDHUP closes the connection.
OnHangup(fd) ==
    /\ io_pc = "events"
    /\ fd \in events.fds
    /\ CloseConnection(fd)
    /\ events' = [events EXCEPT !.fds = @ \ {fd}]
    /\ ev' = NoEv
    /\ UNCHANGED <<Config, m_running, m_response_queue, PoolVars, io_pc,
                   accepted, requests, Units>>


\* thread_pool::push_task picks queue (m_next_queue mod m_num_threads); the
\* counter advances whether or not the push succeeds.
PushTaskIndex == (m_next_queue % m_num_threads) + 1

\* on_read, when read() fails, returns 0 (peer closed) or the parser buffer is
\* full: handle_socket_read closes the connection.
OnReadClose(fd) ==
    /\ io_pc = "events"
    /\ fd \in events.fds
    /\ epoll[fd] = "in"
    /\ CloseConnection(fd)
    /\ events' = [events EXCEPT !.fds = @ \ {fd}]
    /\ ev' = NoEv
    /\ UNCHANGED <<Config, m_running, m_response_queue, PoolVars, io_pc,
                   accepted, requests, Units>>

\* on_read, when the bytes read so far do not complete a request: eof() is
\* false and the connection keeps waiting for more.
OnReadPartial(fd) ==
    /\ io_pc = "events"
    /\ fd \in events.fds
    /\ epoll[fd] = "in"
    /\ m_connections' = [m_connections EXCEPT
                           ![fd] = [update_activity(@) EXCEPT !.parser = "partial"]]
    /\ events' = [events EXCEPT !.fds = @ \ {fd}]
    /\ ev' = NoEv
    /\ UNCHANGED <<Config, m_running, epoll, m_response_queue, PoolVars, io_pc,
                   accepted, metrics_connections, Ghost>>

\* on_read, when the bytes complete a request: process_request, with
\* dispatch_to_worker when the request is routed to an endpoint.
OnReadRequest(fd) ==
    /\ io_pc = "events"
    /\ fd \in events.fds
    /\ epoll[fd] = "in"
    /\ requests < MaxRequests
    /\ events' = [events EXCEPT !.fds = @ \ {fd}]
    /\ \E class \in RequestClasses :
        LET conn == update_activity(m_connections[fd])
            path == class.path
            rq == requests + 1
            item == [client_fd |-> fd, from |-> conn.id, rq |-> rq]
            task == [fd |-> fd, id |-> conn.id, rq |-> rq, while_running |-> m_running]
            rfull == QueueFull(m_response_queue, ResponseQueueCapacity)
            qi == PushTaskIndex
            tfull == QueueFull(m_task_queues[qi], TaskQueueCapacity)
            after == [conn EXCEPT !.parser = IF path = "parse400" THEN "complete" ELSE "moved"]
            base == [op |-> "process_request", fd |-> fd, id |-> conn.id,
                     rq |-> rq,
                     ok |-> class.ok, path |-> path, qlen |-> Len(m_task_queues[qi])]
        IN
        IF path # "dispatch" THEN
            \* an inline response: the push is not guarded, so queue_full_error
            \* leaves run() and the process terminates
            /\ m_connections' = [m_connections EXCEPT ![fd] = after]
            /\ epoll' = remove_from_epoll(epoll, fd)
            /\ m_response_queue' = QueuePush(m_response_queue, ResponseQueueCapacity, item)
            /\ io_pc' = IF rfull THEN "crashed" ELSE io_pc
            /\ ev' = base @@ [pushed |-> Len(m_response_queue') - Len(m_response_queue),
                              full |-> rfull, tasks |-> 0, closed |-> FALSE]
            /\ UNCHANGED <<PoolVars, metrics_connections, orphans>>
        ELSE IF ~tfull THEN
            /\ m_connections' = [m_connections EXCEPT ![fd] = after]
            /\ epoll' = remove_from_epoll(epoll, fd)
            /\ m_task_queues' = [m_task_queues EXCEPT
                                   ![qi] = QueuePush(@, TaskQueueCapacity, task)]
            /\ m_next_queue' = (m_next_queue + 1) % m_num_threads
            /\ ev' = base @@ [pushed |-> 0, full |-> FALSE,
                              tasks |-> Len(m_task_queues'[qi]) - Len(m_task_queues[qi]),
                              closed |-> FALSE]
            /\ UNCHANGED <<m_response_queue, executing, m_active_threads, io_pc,
                           metrics_connections, orphans>>
        ELSE IF ~rfull THEN
            \* task queue full: 503, and the connection is armed for writing
            /\ m_connections' = [m_connections EXCEPT ![fd] = after]
            /\ epoll' = add_to_epoll(remove_from_epoll(epoll, fd), fd, "out")
            /\ m_response_queue' = QueuePush(m_response_queue, ResponseQueueCapacity, item)
            /\ m_next_queue' = (m_next_queue + 1) % m_num_threads
            /\ ev' = [base EXCEPT !.path = "overload503"] @@
                       [pushed |-> 1, full |-> FALSE, tasks |-> 0, closed |-> FALSE]
            /\ UNCHANGED <<m_task_queues, executing, m_active_threads, io_pc,
                           metrics_connections, orphans>>
        ELSE
            \* task queue and response queue full: the connection is closed
            /\ CloseConnection(fd)
            /\ m_next_queue' = (m_next_queue + 1) % m_num_threads
            /\ ev' = [base EXCEPT !.path = "overload503"] @@
                       [pushed |-> 0, full |-> TRUE, tasks |-> 0, closed |-> TRUE]
            /\ UNCHANGED <<m_response_queue, m_task_queues, executing,
                           m_active_threads, io_pc>>
    /\ requests' = requests + 1
    /\ UNCHANGED <<Config, m_running, accepted, Units>>

\* on_write: nothing to do without a pending response; otherwise write until
\* the response is out (reset, read interest again), the socket would block
\* (EAGAIN, the cursor is kept) or the write fails (close).
\* What the write loop of on_write can come to on a response with left bytes
\* to send: every byte written ("done"), or fewer and then EAGAIN or an error.
WriteOutcomes(left) ==
    {[result |-> "done", written |-> left]}
    \cup [result : {"eagain", "error"}, written : 0..(left - 1)]

\* (mutant) on_write that forgets update_pos: the cursor stays where it was
AfterWriteCursorLost(conn, outcome) ==
    IF outcome.result = "done" THEN reset(conn) ELSE update_activity(conn)

\* on_write: the connection entry after the write loop (update_pos for the
\* bytes written; reset once nothing is left)
AfterWrite(conn, outcome) ==
    IF outcome.result = "done" THEN reset(conn)
    ELSE [update_activity(conn) EXCEPT !.response.left = @ - outcome.written]

\* What the step of on_write is remembered by: the connection as the write
\* loop found it, and what the loop came to.
WriteEv(fd, conn, outcome) ==
    CASE outcome.result = "eagain" ->
           [op |-> "on_write", fd |-> fd, result |-> "eagain", id |-> conn.id,
            left |-> conn.response.left, written |-> outcome.written,
            parser |-> conn.parser]
      [] outcome.result = "done" ->
           [op |-> "on_write", fd |-> fd, result |-> "done", id |-> conn.id,
            left |-> conn.response.left, written |-> outcome.written]
      [] OTHER -> [op |-> "on_write", fd |-> fd, result |-> "error"]

OnWrite(fd) ==
    /\ io_pc \in {"events", "drain_events"}
    /\ fd \in events.fds
    /\ epoll[fd] = "out"
    /\ events' = [events EXCEPT !.fds = @ \ {fd}]
    /\ LET conn == m_connections[fd]
       IN IF conn.response.left = 0 THEN
              /\ ev' = NoEv
              /\ UNCHANGED <<m_connections, epoll, metrics_connections, orphans>>
          ELSE
              \E outcome \in WriteOutcomes(conn.response.left) :
                 /\ ev' = WriteEv(fd, conn, outcome)
                 /\ IF outcome.result = "error"
                    THEN CloseConnection(fd)
                    ELSE /\ m_connections' = [m_connections EXCEPT
                                                ![fd] = AfterWrite(conn, outcome)]
                         /\ epoll' = IF outcome.result = "done"
                                     THEN modify_epoll(epoll, fd, "in") ELSE epoll
                         /\ UNCHANGED <<metrics_connections, orphans>>
    /\ UNCHANGED <<Config, m_running, m_response_queue, PoolVars, io_pc,
                   accepted, requests, Units>>

\* process_response_queue: drain_to, then attach each response to the
\* connection found under its client_fd and arm it for writing; a response
\* whose client_fd has no entry is dropped.
RECURSIVE Deliver(_, _, _)
Deliver(conns, ep, items) ==
    IF items = <<>> THEN [conns |-> conns, ep |-> ep]
    ELSE LET item == Head(items)
             fd == item.client_fd
         IN IF IsOpen(conns, fd)
            THEN Deliver([conns EXCEPT ![fd].response =
                              [left |-> ResponseSize, from |-> item.from, rq |-> item.rq]],
                         add_to_epoll(ep, fd, "out"), Tail(items))
            ELSE Deliver(conns, ep, Tail(items))

\* Of the responses in items, those of connections closed while a worker ran
\* their request that find an entry under their client_fd all the same.
Misdelivered(conns, items) ==
    {items[i].from : i \in {j \in 1..Len(items) :
        items[j].from \in orphans /\ IsOpen(conns, items[j].client_fd)}}

Answered(items) == {items[i].from : i \in 1..Len(items)}

\* run(): after the batch, process_response_queue; the idle sweep follows when
\* a second has passed since the last one.
ProcessResponseQueue ==
    /\ io_pc = "events"
    /\ events.fds = {} /\ ~events.listen
    /\ LET r == Deliver(m_connections, epoll, m_response_queue)
       IN /\ m_connections' = r.conns
          /\ epoll' = r.ep
    /\ m_response_queue' = <<>>
    /\ io_pc' \in {"timeouts", "wait"}
    /\ ev' = IF m_response_queue = <<>> THEN NoEv
             ELSE [op |-> "process_response_queue",
                   misdelivered |-> Misdelivered(m_connections, m_response_queue)]
    /\ orphans' = orphans \ Answered(m_response_queue)
    /\ UNCHANGED <<Config, m_running, PoolVars, events, accepted,
                   metrics_connections, requests, Units>>

\* check_timeouts: close and erase every connection idle for more than
\* READ_TIMEOUT.
\* (mutant) a sweep that already closes at READ_TIMEOUT
ExpiredAtTimeout(conns) ==
    {fd \in Fds : IsOpen(conns, fd) /\ conns[fd].idle >= READ_TIMEOUT}

Expired(conns) == {fd \in Fds : IsOpen(conns, fd) /\ conns[fd].idle > READ_TIMEOUT}

\* (mutant) a sweep that looks only at connections with event interest
CheckTimeoutsRegisteredOnly ==
    /\ io_pc = "timeouts"
    /\ LET gone == {fd \in Expired(m_connections) : epoll[fd] # "none"}
       IN /\ m_connections' = [fd \in Fds |->
                                 IF fd \in gone THEN NoConn ELSE m_connections[fd]]
          /\ epoll' = [fd \in Fds |-> IF fd \in gone THEN "none" ELSE epoll[fd]]
          /\ metrics_connections' = metrics_connections - Cardinality(gone)
          /\ orphans' = orphans \cup
               (Running \cap {m_connections[fd].id : fd \in gone})
          /\ ev' = [op |-> "check_timeouts", closed |-> gone]
    /\ io_pc' = "wait"
    /\ UNCHANGED <<Config, m_running, m_response_queue, PoolVars, events,
                   accepted, requests, Units>>

CheckTimeouts ==
    /\ io_pc = "timeouts"
    /\ m_connections' = [fd \in Fds |->
                           IF fd \in Expired(m_connections) THEN NoConn
                           ELSE m_connections[fd]]
    /\ epoll' = [fd \in Fds |->
                   IF fd \in Expired(m_connections) THEN "none" ELSE epoll[fd]]
    /\ metrics_connections' = metrics_connections - Cardinality(Expired(m_connections))
    /\ orphans' = orphans \cup
         (Running \cap {m_connections[fd].id : fd \in Expired(m_connections)})
    /\ io_pc' = "wait"
    /\ ev' = [op |-> "check_timeouts", closed |-> Expired(m_connections)]
    /\ UNCHANGED <<Config, m_running, m_response_queue, PoolVars, events,
                   accepted, requests, Units>>


\* ------------------------------------------------------------- the workers
Alive == io_pc # "crashed"

\* worker_loop: wait_and_pop returns the head of the worker's own queue; the
\* task starts and increments the active-threads gauge.
WorkerPop(w) ==
    /\ Alive
    /\ w <= m_num_threads
    /\ executing[w] = NoTask
    /\ m_task_queues[w] # <<>>
    /\ executing' = [executing EXCEPT ![w] = Head(m_task_queues[w])]
    /\ m_task_queues' = [m_task_queues EXCEPT ![w] = Tail(@)]
    /\ m_active_threads' = m_active_threads + 1
    /\ ev' = NoEv
    /\ UNCHANGED <<Config, m_running, m_connections, epoll, m_response_queue,
                   m_next_queue, io_pc, events, accepted, metrics_connections, Ghost>>

\* The dispatched task from execute_handler on: the handler's response (every
\* exception of the handler has become a response) is pushed onto the response
\* queue.  If that push throws, the rest of the task is skipped (the gauge is
\* not decremented) and worker_loop swallows the exception.
WorkerFinish(w) ==
    /\ Alive
    /\ executing[w] # NoTask
    /\ LET t == executing[w]
           rfull == QueueFull(m_response_queue, ResponseQueueCapacity)
       IN /\ m_response_queue' = QueuePush(m_response_queue, ResponseQueueCapacity,
                                           [client_fd |-> t.fd, from |-> t.id, rq |-> t.rq])
          /\ m_active_threads' = IF rfull THEN m_active_threads ELSE m_active_threads - 1
          /\ ev' = [op |-> "task_done", fd |-> t.fd, id |-> t.id, rq |-> t.rq,
                    pushed |-> Len(m_response_queue') - Len(m_response_queue),
                    full |-> rfull,
                    closed |-> m_connections[t.fd].id # t.id]
    /\ executing' = [executing EXCEPT ![w] = NoTask]
    /\ UNCHANGED <<Config, m_running, m_connections, epoll, m_task_queues,
                   m_next_queue, io_pc, events, accepted, metrics_connections, Ghost>>

\* --------------------------------------------------------- the environment
\* Time passes: every open connection has been idle TickSeconds longer.
Advance(seconds) ==
    /\ Alive
    /\ \E fd \in Fds : IsOpen(m_connections, fd) /\ m_connections[fd].idle <= READ_TIMEOUT
    /\ m_connections' = [fd \in Fds |->
         IF IsOpen(m_connections, fd)
         THEN [m_connections[fd] EXCEPT !.idle = Min(@ + seconds, READ_TIMEOUT + 1)]
         ELSE m_connections[fd]]
    /\ ev' = NoEv
    /\ UNCHANGED <<Config, m_running, epoll, m_response_queue, PoolVars, io_pc,
                   events, accepted, metrics_connections, Ghost>>

Tick == Advance(TickSeconds)

\* server::start: a signal arrived, the supervisor clears the running flag.
Shutdown ==
    /\ Alive
    /\ m_running
    /\ m_running' = FALSE
    /\ ev' = NoEv
    /\ UNCHANGED <<Config, m_connections, epoll, m_response_queue, PoolVars,
                   io_pc, events, accepted, metrics_connections, Ghost>>

\* ------------------------------------------------------ the shutdown drain
\* run(): the loop test fails, drain_pending_responses starts.
LeaveLoop ==
    /\ io_pc = "wait"
    /\ ~m_running
    /\ io_pc' = "drain"
    /\ ev' = NoEv
    /\ UNCHANGED <<Config, m_running, m_connections, epoll, m_response_queue,
                   PoolVars, events, accepted, metrics_connections, Ghost>>

\* The loop test of drain_pending_responses.
DrainCondition == get_total_pending_tasks > 0 \/ Len(m_response_queue) > 0

\* One round of the drain loop: process_response_queue, then epoll_wait.
DrainRound ==
    /\ io_pc = "drain"
    /\ DrainCondition
    /\ LET r == Deliver(m_connections, epoll, m_response_queue)
       IN /\ m_connections' = r.conns
          /\ epoll' = r.ep
          /\ \E S \in SUBSET {fd \in Fds : r.ep[fd] # "none"} :
               events' = [fds |-> S, listen |-> FALSE]
    /\ m_response_queue' = <<>>
    /\ io_pc' = "drain_events"
    /\ ev' = IF m_response_queue = <<>> THEN NoEv
             ELSE [op |-> "process_response_queue",
                   misdelivered |-> Misdelivered(m_connections, m_response_queue)]
    /\ orphans' = orphans \ Answered(m_response_queue)
    /\ UNCHANGED <<Config, m_running, PoolVars, accepted, metrics_connections,
                   requests, Units>>

\* The drain loop handles EPOLLOUT events only; any other event is ignored.
DrainIgnore(fd) ==
    /\ io_pc = "drain_events"
    /\ fd \in events.fds
    /\ epoll[fd] # "out"
    /\ events' = [events EXCEPT !.fds = @ \ {fd}]
    /\ ev' = NoEv
    /\ UNCHANGED <<Config, m_running, m_connections, epoll, m_response_queue,
                   PoolVars, io_pc, accepted, metrics_connections, Ghost>>

DrainNextRound ==
    /\ io_pc = "drain_events"
    /\ events.fds = {}
    /\ io_pc' = "drain"
    /\ ev' = NoEv
    /\ UNCHANGED <<Config, m_running, m_connections, epoll, m_response_queue,
                   PoolVars, events, accepted, metrics_connections, Ghost>>

\* drain_pending_responses ends, run() returns.
DrainExit ==
    /\ io_pc = "drain"
    /\ ~DrainCondition
    /\ io_pc' = "returned"
    /\ ev' = NoEv
    /\ UNCHANGED <<Config, m_running, m_connections, epoll, m_response_queue,
                   PoolVars, events, accepted, metrics_connections, Ghost>>

\* ------------------------------------------------------- the specification
Next ==
    \/ EpollWait
    \/ OnConnect
    \/ \E fd \in Fds : OnHangup(fd)
    \/ \E fd \in Fds : OnReadClose(fd)
    \/ \E fd \in Fds : OnReadPartial(fd)
    \/ \E fd \in Fds : OnReadRequest(fd)
    \/ \E fd \in Fds : OnWrite(fd)
    \/ ProcessResponseQueue
    \/ CheckTimeouts
    \/ \E w \in Workers : WorkerPop(w)
    \/ \E w \in Workers : WorkerFinish(w)
    \/ Tick
    \/ Shutdown
    \/ LeaveLoop
    \/ DrainRound
    \/ \E fd \in Fds : DrainIgnore(fd)
    \/ DrainNextRound
    \/ DrainExit

Spec == Init /\ [][Next]_vars


SpecScenario6 == InitScenario6 /\ [][Next]_vars

\* ---------------------------------------------------- the queue unit alone
\* One shared_queue<T> of any capacity, one producer, one consumer.  Items are
\* numbered in the order of their push calls.
ShardVars == <<m_num_threads, m_queue_capacity, m_running, m_connections, epoll,
               m_response_queue, m_task_queues, m_next_queue, executing, io_pc,
               events, accepted, metrics_connections, m_active_threads, ev,
               requests, orphans>>

NoJob == 0

\* (mutant) wait_and_pop that gives up as soon as the queue is stopped
WaitAndPopStopFirst(queue, stopped) ==
    IF stopped \/ queue = <<>> THEN [item |-> NoJob, queue |-> queue]
    ELSE [item |-> Head(queue), queue |-> Tail(queue)]

\* shared_queue::wait_and_pop once its wait is over (the queue is non-empty or
\* stopped): the front item, or nullopt from an empty queue.
wait_and_pop(queue, stopped) ==
    IF queue = <<>> THEN [item |-> NoJob, queue |-> queue]
    ELSE [item |-> Head(queue), queue |-> Tail(queue)]

InitQueue ==
    /\ InitWith(PoolSize, QueueCapacity)
    /\ \E c \in 0..MaxCapacity : sq = [NoQueue EXCEPT !.capacity = c]
    /\ UnitsAtRest

\* m_cond.notify_one(): one of the blocked consumers, if there is any, is
\* given a wake-up.
NotifyOne(waiting, notified) ==
    IF waiting = {} THEN {notified} ELSE {notified \cup {c} : c \in waiting}

\* shared_queue::push (the caller catches queue_full_error)
SqPush ==
    /\ sq.next <= MaxItems
    /\ LET full == QueueFull(sq.queue, sq.capacity)
       IN \E woken \in NotifyOne(sq.waiting, sq.notified) :
            sq' = [sq EXCEPT !.queue = QueuePush(sq.queue, sq.capacity, sq.next),
                             !.next = @ + 1,
                             !.rejected = IF full THEN @ \cup {sq.next} ELSE @,
                             !.notified = IF full THEN @ ELSE woken,
                             !.before = sq.queue,
                             !.last = IF full THEN "queue_full" ELSE "pushed"]
    /\ UNCHANGED <<ShardVars, px, hx, tp, More>>

\* shared_queue::wait_and_pop with an item available; the consumer runs it.
SqWaitAndPop ==
    /\ sq.queue # <<>>
    /\ sq' = [sq EXCEPT !.queue = Tail(@), !.popped = @ \cup {Head(sq.queue)},
                        !.out = Append(@, Head(sq.queue)),
                        !.before = sq.queue, !.last = "popped"]
    /\ UNCHANGED <<ShardVars, px, hx, tp, More>>

\* shared_queue::wait_and_pop on a stopped, empty queue: nullopt.
SqWaitAndPopNone ==
    /\ sq.queue = <<>>
    /\ sq.m_stopped
    /\ sq.last # "nullopt"
    /\ sq' = [sq EXCEPT !.before = sq.queue, !.last = "nullopt"]
    /\ UNCHANGED <<ShardVars, px, hx, tp, More>>

\* shared_queue::wait_and_pop: the predicate of m_cond.wait
WaitPredicate(queue, stopped) == queue # <<>> \/ stopped

\* shared_queue::wait_and_pop by consumer c when the predicate is false: the
\* consumer blocks on m_cond.
SqBlock(c) ==
    /\ c \notin sq.waiting
    /\ ~WaitPredicate(sq.queue, sq.m_stopped)
    /\ sq' = [sq EXCEPT !.waiting = @ \cup {c}, !.before = sq.queue, !.last = "blocked"]
    /\ UNCHANGED <<ShardVars, px, hx, tp, More>>

\* shared_queue::wait_and_pop: the blocked consumer c has been notified; it
\* tests the predicate again and returns the front item, or nullopt, or goes
\* on waiting.
SqWake(c) ==
    /\ c \in sq.waiting
    /\ c \in sq.notified
    /\ IF ~WaitPredicate(sq.queue, sq.m_stopped)
       THEN sq' = [sq EXCEPT !.notified = @ \ {c}, !.before = sq.queue, !.last = "blocked"]
       ELSE LET r == wait_and_pop(sq.queue, sq.m_stopped)
            IN sq' = [sq EXCEPT !.queue = r.queue,
                                !.popped = IF r.item = NoJob THEN @ ELSE @ \cup {r.item},
                                !.out = IF r.item = NoJob THEN @ ELSE Append(@, r.item),
                                !.waiting = @ \ {c}, !.notified = @ \ {c},
                                !.before = sq.queue,
                                !.last = IF r.item = NoJob THEN "nullopt" ELSE "popped"]
    /\ UNCHANGED <<ShardVars, px, hx, tp, More>>

\* (mutant) a drain_to that hands the items over last first
DrainOrderReversed(queue) == [i \in 1..Len(queue) |-> queue[Len(queue) + 1 - i]]

\* shared_queue::drain_to: the items in the order they reach the target
DrainOrder(queue) == queue

\* shared_queue::drain_to: every item leaves the queue, in order.
SqDrainTo ==
    /\ sq.queue # <<>>
    /\ sq' = [sq EXCEPT !.queue = <<>>,
                        !.popped = @ \cup {sq.queue[i] : i \in 1..Len(sq.queue)},
                        !.out = @ \o DrainOrder(sq.queue),
                        !.before = sq.queue, !.last = "drained"]
    /\ UNCHANGED <<ShardVars, px, hx, tp, More>>

\* (mutant) a stop that sets the flag and notifies nobody
SqStopSilent ==
    /\ ~sq.m_stopped
    /\ sq' = [sq EXCEPT !.m_stopped = TRUE, !.at_stop = sq.queue,
                        !.out_at_stop = Len(sq.out),
                        !.before = sq.queue, !.last = "stopped"]
    /\ UNCHANGED <<ShardVars, px, hx, tp, More>>

\* shared_queue::stop: the flag under the lock, then m_cond.notify_all()
SqStop ==
    /\ ~sq.m_stopped
    /\ sq' = [sq EXCEPT !.m_stopped = TRUE, !.notified = sq.waiting,
                        !.at_stop = sq.queue, !.out_at_stop = Len(sq.out),
                        !.before = sq.queue, !.last = "stopped"]
    /\ UNCHANGED <<ShardVars, px, hx, tp, More>>

NextQueue ==
    \/ SqPush
    \/ SqWaitAndPop
    \/ SqWaitAndPopNone
    \/ \E c \in Consumers : SqBlock(c) \/ SqWake(c)
    \/ SqDrainTo
    \/ SqStop

SpecQueue == InitQueue /\ [][NextQueue]_vars
\* A notified consumer gets to run.
SpecQueueFair == SpecQueue /\ \A c \in Consumers : WF_vars(SqWake(c))



\* --------------------------------------------------- the request unit alone
\* One finalized request taken through process_request and, when it is
\* dispatched, through execute_handler.  The request is drawn with what the
\* two functions look at: Origin, method, path, the Authorization header, and
\* whether the endpoint's validator and handler raise on it.
Tokens == [format_ok : BOOLEAN, signature_ok : BOOLEAN,
           exp : {"missing", "past", "future"}, preauth : BOOLEAN]
GoodToken == [format_ok |-> TRUE, signature_ok |-> TRUE, exp |-> "future", preauth |-> FALSE]
Authorizations ==
    {[scheme |-> "none", token |-> GoodToken], [scheme |-> "Basic", token |-> GoodToken],
     [scheme |-> "bearer", token |-> GoodToken]}
    \cup {[scheme |-> "Bearer", token |-> t] : t \in Tokens}
HandlerPaths == InternalPaths \cup m_routes \cup {"/nowhere", "/Hello"}
\* What the endpoint's handler does: it returns, or it throws one of the
\* exception kinds execute_handler has a catch clause for.
HandlerThrows ==
    {"nothing", "validation_error", "sql_error", "parsing_error", "output_error",
     "curl_exception", "exception"}
HandlerRequests ==
    [wellformed : BOOLEAN, origin : Origins, method : Methods, path : HandlerPaths,
     authorization : Authorizations, valid_input : BOOLEAN,
     handler_throws : HandlerThrows]

\* request::get_bearer_token: the Authorization value after the prefix "Bearer ".
has_bearer_token(req) == req.authorization.scheme = "Bearer"

\* jwt::is_valid (validate_and_decode): format, signature, exp claim, expiry.
is_valid(token) ==
    IF ~token.format_ok THEN FALSE
    ELSE IF ~token.signature_ok THEN FALSE
    ELSE IF token.exp = "missing" THEN FALSE
    ELSE token.exp = "future"

\* io_worker::validate_token
validate_token(req) ==
    IF ~has_bearer_token(req) THEN FALSE
    ELSE is_valid(req.authorization.token)

\* The outcome of execute_handler: whether the validator ran, whether the
\* handler was invoked, the status of the response.
Outcome(validated, invoked, status) ==
    [validated |-> validated, invoked |-> invoked, status |-> status]

\* execute_handler's catch clauses: the status set for each exception kind
StatusOfException(thrown) ==
    CASE thrown = "validation_error" -> 400
      [] thrown = "sql_error"        -> 500
      [] thrown = "parsing_error"    -> 400
      [] thrown = "output_error"     -> 500
      [] thrown = "curl_exception"   -> 500
      [] OTHER                       -> 500

\* (mutant) execute_handler testing the token before the method
ExecuteHandlerTokenFirst(req, endpoint) ==
    IF endpoint.is_secure /\ ~validate_token(req) THEN Outcome(FALSE, FALSE, 401)
    ELSE IF endpoint.method # req.method THEN Outcome(FALSE, FALSE, 400)
    ELSE IF endpoint.rules /\ ~req.valid_input THEN Outcome(TRUE, FALSE, 400)
    ELSE IF req.handler_throws # "nothing"
         THEN Outcome(TRUE, TRUE, StatusOfException(req.handler_throws))
    ELSE Outcome(TRUE, TRUE, 200)

\* io_worker::execute_handler
execute_handler(req, endpoint) ==
    IF endpoint.method # req.method THEN Outcome(FALSE, FALSE, 400)
    ELSE IF endpoint.is_secure /\ ~validate_token(req) THEN Outcome(FALSE, FALSE, 401)
    ELSE IF endpoint.rules /\ ~req.valid_input THEN Outcome(TRUE, FALSE, 400)
    ELSE IF req.handler_throws # "nothing"
         THEN Outcome(TRUE, TRUE, StatusOfException(req.handler_throws))
    ELSE Outcome(TRUE, TRUE, 200)

\* http::response::response(origin): the Access-Control-Allow-Origin value the
\* response will carry ("none": no such header).
ResponseOrigin(origin) == IF origin = "none" THEN "none" ELSE origin

\* The response process_request builds on the I/O thread for each branch
\* (status 0: the request goes to a worker instead).  API_KEY is empty, its
\* default, so that every built-in path answers 200.
InlineResponse(req) ==
    LET route == Route(req)
    IN CASE route = "parse400"    -> [status |-> 400, acao |-> "none"]
         [] route = "cors403"     -> [status |-> 403, acao |-> "none"]
         [] route = "options204"  -> [status |-> 204, acao |-> ResponseOrigin(req.origin)]
         [] route = "builtin"     -> [status |-> 200, acao |-> ResponseOrigin(req.origin)]
         [] route = "notfound404" -> [status |-> 404, acao |-> ResponseOrigin(req.origin)]
         [] OTHER                 -> [status |-> 0,   acao |-> ResponseOrigin(req.origin)]

NoOutcome == [validated |-> FALSE, invoked |-> FALSE, status |-> 0]

\* A response another request of the shard left on the response queue.
OtherResponse == [status |-> 204, acao |-> "none"]

InitHandler ==
    /\ InitWith(PoolSize, QueueCapacity)
    /\ sq = NoQueue /\ px = NoParser /\ tp = NoPool /\ MoreAtRest
    /\ \E req \in HandlerRequests :
       \E queued \in 0..ResponseQueueCapacity :
          hx = [stage |-> "finalized", req |-> req, route |-> "none",
                response |-> [status |-> 0, acao |-> "none"], outcome |-> NoOutcome,
                m_response_queue |-> [i \in 1..queued |-> OtherResponse],
                pushed |-> 0]

\* process_request for the request
HxProcessRequest ==
    /\ hx.stage = "finalized"
    /\ hx' = [hx EXCEPT !.stage = IF Route(hx.req) = "dispatch" THEN "dispatched" ELSE "answered",
                        !.route = Route(hx.req),
                        !.response = InlineResponse(hx.req)]
    /\ UNCHANGED <<ShardVars, sq, px, tp, More>>

\* the task: execute_handler fills the response, which is then pushed onto the
\* response queue (a push that throws is swallowed by worker_loop)
HxExecuteHandler ==
    /\ hx.stage = "dispatched"
    /\ LET outcome == execute_handler(hx.req, Catalog[hx.req.path])
           res == [hx.response EXCEPT !.status = outcome.status]
           queue == QueuePush(hx.m_response_queue, ResponseQueueCapacity, res)
       IN hx' = [hx EXCEPT !.stage = "answered",
                           !.outcome = outcome,
                           !.response = res,
                           !.m_response_queue = queue,
                           !.pushed = Len(queue) - Len(hx.m_response_queue)]
    /\ UNCHANGED <<ShardVars, sq, px, tp, More>>

NextHandler == HxProcessRequest \/ HxExecuteHandler
SpecHandler == InitHandler /\ [][NextHandler]_vars

\* ---------------------------------------------------- the parser unit alone
\* One request_parser fed by on_read.  A client's request is its method token,
\* the URI token of its request line (a sequence of characters), its header
\* lines in order, and the number of body bytes it sends.  Sizes are counted in
\* units: one for the request line, one for each header line, one for the
\* blank line, one for each body byte.  size_t is SizeBits wide.
SizeMax == 2 ^ SizeBits
None == -1

MethodTokens == {"GET", "POST", "OPTIONS", "PUT"}
Uris == {<<"/", "a">>, <<"/", "a", "?", "b">>, <<"/", ".", ".">>, <<"/", "a", ".">>,
         <<"/", "%", "a">>, <<"/", "\\">>, <<"a">>, <<"?">>}
HeaderLine(key, value) == [colon |-> TRUE, key |-> key, value |-> value]
HeaderLines ==
    {HeaderLine("Host", "h"),
     HeaderLine("Transfer-Encoding", "chunked"),
     HeaderLine("transfer-encoding", "chunked"),
     HeaderLine("Content-Length", "0"),
     HeaderLine("Content-Length", "1"),
     HeaderLine("Content-Length", "SIZE_MAX"),
     HeaderLine("content-length", "x"),
     HeaderLine("Content-Type", "application/json"),
     [colon |-> FALSE, key |-> "", value |-> ""]}
RECURSIVE SeqsUpTo(_, _)
SeqsUpTo(S, n) ==
    IF n = 0 THEN {<<>>}
    ELSE LET shorter == SeqsUpTo(S, n - 1)
         IN shorter \cup {Append(q, x) : q \in {r \in shorter : Len(r) = n - 1}, x \in S}
ClientRequests ==
    [method : MethodTokens, uri : Uris, headers : SeqsUpTo(HeaderLines, MaxHeaders),
     body_len : 0..MaxBody, body_ok : BOOLEAN]

\* std::tolower on the header names that occur
ToLower(key) ==
    CASE key = "Host" -> "host"
      [] key = "Transfer-Encoding" -> "transfer-encoding"
      [] key = "Content-Length" -> "content-length"
      [] key = "Content-Type" -> "content-type"
      [] OTHER -> key
\* sv_ci_equal
sv_ci_equal(a, b) == ToLower(a) = ToLower(b)

Contains(str, ch) == \E i \in 1..Len(str) : str[i] = ch
ContainsDotDot(str) == \E i \in 1..Len(str) - 1 : str[i] = "." /\ str[i + 1] = "."

\* is_valid_path
is_valid_path(path) ==
    IF path = <<>> THEN FALSE
    ELSE IF path[1] # "/" THEN FALSE
    ELSE IF \E ch \in {"%", "NUL", "CR", "LF", "\\"} : Contains(path, ch) THEN FALSE
    ELSE ~ContainsDotDot(path)

\* request_parser::parse_uri
parse_uri(uri) ==
    IF Contains(uri, "?") THEN "URI query parameters are not allowed"
    ELSE IF Len(uri) > MAX_PATH_LENGTH THEN "URI exceeds maximum length"
    ELSE IF ~is_valid_path(uri) THEN "Invalid URI path"
    ELSE "ok"

\* request_parser::parse_headers: the lines in order; seen is m_headers' keys.
RECURSIVE parse_headers(_, _)
parse_headers(lines, seen) ==
    IF lines = <<>> THEN "ok"
    ELSE LET line == Head(lines)
         IN IF ~line.colon THEN "Malformed header line"
            ELSE IF sv_ci_equal(line.key, "Transfer-Encoding")
                 THEN "Transfer-Encoding is not supported"
            ELSE IF sv_ci_equal(line.key, "Host") /\ "host" \in seen
                 THEN "Duplicate Host header detected"
            ELSE parse_headers(Tail(lines), seen \cup {ToLower(line.key)})

\* The value of the first header line named Content-Length, any letter case
\* ("absent" when there is none).
RECURSIVE FirstContentLength(_)
FirstContentLength(lines) ==
    IF lines = <<>> THEN "absent"
    ELSE IF Head(lines).colon /\ sv_ci_equal(Head(lines).key, "Content-Length")
         THEN Head(lines).value
    ELSE FirstContentLength(Tail(lines))
ContentType(lines) ==
    IF \E i \in 1..Len(lines) : lines[i].colon /\ sv_ci_equal(lines[i].key, "Content-Type")
    THEN "application/json" ELSE "absent"

HeaderSize(req) == 2 + Len(req.headers)
\* socket_buffer::size(): what has been read so far
BufferSize(p, req) == IF p.header THEN HeaderSize(req) + p.body + p.extra ELSE 1

NewParser ==
    [header |-> FALSE, body |-> 0, extra |-> 0, m_identifiedHeaderSize |-> None,
     m_identifiedMethod |-> "none", m_identifiedContentLength |-> None,
     m_isFinalized |-> FALSE]

Returns(p, value) == [p |-> p, value |-> value]

\* The last call made on a parser that on_read is done with, and its value.
NoCall == [call |-> "none", value |-> "none"]

\* (mutant) update_pos without the test of m_isFinalized
UpdatePosAlways(p, bytes_read) == [p EXCEPT !.extra = @ + bytes_read]

\* request_parser::update_pos for bytes that follow the request in the buffer
update_pos(p, bytes_read) ==
    IF p.m_isFinalized THEN p
    ELSE [p EXCEPT !.extra = @ + bytes_read]

\* request_parser::find_and_store_header_end
find_and_store_header_end(p, req) ==
    IF p.m_identifiedHeaderSize # None THEN Returns(p, TRUE)
    ELSE IF p.header THEN Returns([p EXCEPT !.m_identifiedHeaderSize = HeaderSize(req)], TRUE)
    ELSE Returns(p, FALSE)

\* request_parser::parse_and_store_method.  With no header line the request
\* line ends where the header section ends and the function gives up.
parse_and_store_method(p, req) ==
    IF p.m_identifiedMethod # "none" THEN Returns(p, TRUE)
    ELSE IF p.m_identifiedHeaderSize = None THEN Returns(p, FALSE)
    ELSE IF BufferSize(p, req) < p.m_identifiedHeaderSize THEN Returns(p, FALSE)
    ELSE IF req.headers = <<>> THEN Returns(p, FALSE)
    ELSE LET m == CASE req.method = "GET" -> "get"
                    [] req.method = "POST" -> "post"
                    [] req.method = "OPTIONS" -> "options"
                    [] OTHER -> "unknown"
         IN Returns([p EXCEPT !.m_identifiedMethod = m], m # "unknown")

\* std::from_chars into a size_t: the number a decimal string denotes, None
\* when it is not one ("SIZE_MAX" stands for the digits of the largest size_t).
from_chars(value) ==
    CASE value = "0" -> 0
      [] value = "1" -> 1
      [] value = "SIZE_MAX" -> SizeMax - 1
      [] OTHER -> None

\* request_parser::parse_and_store_content_length
parse_and_store_content_length(p, req) ==
    IF p.m_identifiedMethod # "post" THEN Returns(p, TRUE)
    ELSE IF p.m_identifiedContentLength # None THEN Returns(p, TRUE)
    ELSE IF p.m_identifiedHeaderSize = None THEN Returns(p, FALSE)
    ELSE LET value == from_chars(FirstContentLength(req.headers))
         IN IF value # None
            THEN Returns([p EXCEPT !.m_identifiedContentLength = value], TRUE)
            ELSE Returns(p, FALSE)

\* request_parser::eof
eof(p, req) ==
    LET h == find_and_store_header_end(p, req)
        m == parse_and_store_method(h.p, req)
        c == parse_and_store_content_length(m.p, req)
    IN IF ~h.value THEN Returns(h.p, FALSE)
       ELSE IF ~m.value THEN Returns(m.p, FALSE)
       ELSE IF m.p.m_identifiedMethod \in {"get", "options"} THEN Returns(m.p, TRUE)
       ELSE IF m.p.m_identifiedMethod = "post"
            THEN IF ~c.value THEN Returns(c.p, FALSE)
                 ELSE Returns(c.p, BufferSize(c.p, req) >=
                        (c.p.m_identifiedHeaderSize + c.p.m_identifiedContentLength) % SizeMax)
       ELSE Returns(m.p, FALSE)

\* request_parser::finalize: "ok" or the parse error
finalize(p, req) ==
    LET e == eof(p, req)
        line == parse_uri(req.uri)
        headers == parse_headers(req.headers, {})
    IN IF p.m_isFinalized THEN Returns(p, "ok")
       ELSE IF ~e.value THEN Returns(e.p, "Attempted to finalize before request reached eof()")
       ELSE IF line # "ok" THEN Returns(e.p, line)
       ELSE IF headers # "ok" THEN Returns(e.p, headers)
       ELSE IF e.p.m_identifiedMethod = "post" /\ e.p.m_identifiedContentLength = None
            THEN Returns(e.p, "POST request without Content-Length header")
       ELSE IF e.p.m_identifiedMethod = "post" /\ e.p.m_identifiedContentLength > 0
               /\ ContentType(req.headers) = "absent"
            THEN Returns(e.p, "POST request with body is missing Content-Type header")
       ELSE IF e.p.m_identifiedMethod = "post" /\ e.p.m_identifiedContentLength > 0
               /\ ~req.body_ok
            THEN Returns(e.p, "JSON parse error")
       ELSE Returns([e.p EXCEPT !.m_isFinalized = TRUE], "ok")

InitParser ==
    /\ InitWith(PoolSize, QueueCapacity)
    /\ sq = NoQueue /\ hx = NoHandler /\ tp = NoPool /\ MoreAtRest
    /\ \E req \in ClientRequests :
          px = [stage |-> "connected", req |-> req, p |-> NewParser,
                eof |-> FALSE, result |-> "waiting", calls |-> 0, last |-> NoCall]

\* on_read after the bytes that arrived: eof(), and when it holds
\* process_request, whose first step is finalize() (400 when it fails).
OnRead(p, req) ==
    LET e == eof(p, req)
        f == finalize(e.p, req)
    IN IF ~e.value THEN [stage |-> "reading", req |-> req, p |-> e.p,
                         eof |-> FALSE, result |-> "waiting",
                         calls |-> 0, last |-> NoCall]
       ELSE [stage |-> "processed", req |-> req, p |-> f.p, eof |-> TRUE,
             result |-> IF f.value = "ok" THEN "routed" ELSE "400",
             calls |-> 0, last |-> NoCall]

\* A read that leaves the header section incomplete.
PxReadPart ==
    /\ px.stage = "connected"
    /\ px' = OnRead(px.p, px.req)
    /\ UNCHANGED <<ShardVars, sq, hx, tp, More>>

\* A read that completes the header section, with n bytes of the body.
PxReadHeader ==
    /\ px.stage \in {"connected", "reading"}
    /\ ~px.p.header
    /\ \E n \in 0..px.req.body_len :
          px' = OnRead([px.p EXCEPT !.header = TRUE, !.body = n], px.req)
    /\ UNCHANGED <<ShardVars, sq, hx, tp, More>>

\* A read of further body bytes.
PxReadBody ==
    /\ px.stage = "reading"
    /\ px.p.header
    /\ \E n \in px.p.body + 1..px.req.body_len :
          px' = OnRead([px.p EXCEPT !.body = n], px.req)
    /\ UNCHANGED <<ShardVars, sq, hx, tp, More>>

\* finalize() on a parser as it stands (a caller that does not test eof()).
PxFinalize ==
    /\ px.stage = "reading"
    /\ LET f == finalize(px.p, px.req)
       IN px' = [px EXCEPT !.stage = "finalize_called", !.p = f.p,
                           !.result = IF f.value = "ok" THEN "routed" ELSE "error"]
    /\ UNCHANGED <<ShardVars, sq, hx, tp, More>>

\* Further calls on a parser whose request was processed: the bytes of a
\* following request are committed, eof() or finalize() is called once more.
PxUpdatePos ==
    /\ px.stage = "processed"
    /\ px.calls < MaxCalls
    /\ px' = [px EXCEPT !.p = update_pos(@, 1),
                        !.calls = @ + 1,
                        !.last = [call |-> "update_pos", value |-> "none"]]
    /\ UNCHANGED <<ShardVars, sq, hx, tp, More>>

PxEof ==
    /\ px.stage = "processed"
    /\ px.calls < MaxCalls
    /\ LET e == eof(px.p, px.req)
       IN px' = [px EXCEPT !.p = e.p,
                           !.eof = e.value,
                           !.calls = @ + 1,
                           !.last = [call |-> "eof", value |-> IF e.value THEN "true" ELSE "false"]]
    /\ UNCHANGED <<ShardVars, sq, hx, tp, More>>

PxFinalizeAgain ==
    /\ px.stage = "processed"
    /\ px.calls < MaxCalls
    /\ LET f == finalize(px.p, px.req)
       IN px' = [px EXCEPT !.p = f.p,
                           !.calls = @ + 1,
                           !.last = [call |-> "finalize", value |-> f.value]]
    /\ UNCHANGED <<ShardVars, sq, hx, tp, More>>

NextParser ==
    \/ PxReadPart \/ PxReadHeader \/ PxReadBody \/ PxFinalize
    \/ PxUpdatePos \/ PxEof \/ PxFinalizeAgain
SpecParser == InitParser /\ [][NextParser]_vars

\* ------------------------------------------------- the built-in endpoints
\* One request given to handle_internal_api, for one value of API_KEY.  Header
\* values and the key are sequences of characters.
NoHeader == <<"absent">>
BearerPrefix == <<"b", "e", "a", "r", "e", "r", " ">>
AuthPrefixes ==
    {<<"B", "e", "a", "r", "e", "r", " ">>, BearerPrefix,
     <<"B", "E", "A", "R", "E", "R", " ">>, <<"B", "e", "a", "r", "e", "r", "k">>,
     <<"B", "a", "s", "i", "c", " ", " ">>, <<"B", "e", "a", "r", "e", "r">>}
AuthTokens == {<<>>, <<"k">>, <<"K">>, <<"k", "2">>, <<"k", " ">>}
ApiKeys == {<<>>, <<"k">>, <<"k", "2">>}
AuthorizationValues == {NoHeader, <<"k">>} \cup {p \o t : p \in AuthPrefixes, t \in AuthTokens}
InternalRequestPaths == InternalPaths \cup {"/hello", "/Ping"}
InternalRequests ==
    [m_api_key : ApiKeys, authorization : AuthorizationValues, path : InternalRequestPaths]

\* std::tolower on the characters that occur
tolower(ch) ==
    CASE ch = "B" -> "b" [] ch = "E" -> "e" [] ch = "A" -> "a" [] ch = "R" -> "r"
      [] ch = "K" -> "k" [] OTHER -> ch

substr(str, from, count) ==
    [i \in 1..Min(count, Len(str) - from + 1) |-> str[from + i - 1]]

\* (mutant) check_bearer_auth comparing the token without regard to case
CheckBearerAuthAnyCase(req) ==
    IF req.m_api_key = <<>> THEN TRUE
    ELSE IF req.authorization = NoHeader \/ Len(req.authorization) < 7 THEN FALSE
    ELSE IF [i \in 1..7 |-> tolower(req.authorization[i])] # BearerPrefix THEN FALSE
    ELSE LET token == substr(req.authorization, 8, Len(req.authorization))
         IN [i \in 1..Len(token) |-> tolower(token[i])] = req.m_api_key

\* handle_internal_api's check_bearer_auth
check_bearer_auth(req) ==
    IF req.m_api_key = <<>> THEN TRUE
    ELSE IF req.authorization = NoHeader \/ Len(req.authorization) < 7 THEN FALSE
    ELSE IF [i \in 1..7 |-> tolower(substr(req.authorization, 1, 7)[i])] # BearerPrefix
         THEN FALSE
    ELSE substr(req.authorization, 8, Len(req.authorization)) = req.m_api_key

InternalAnswer(handled, status, body) ==
    [handled |-> handled, status |-> status, body |-> body]

\* io_worker::handle_internal_api
handle_internal_api(req) ==
    IF req.path = "/metrics"
    THEN IF ~check_bearer_auth(req) THEN InternalAnswer(TRUE, 400, "Bad Request")
         ELSE InternalAnswer(TRUE, 200, "to_json")
    ELSE IF req.path = "/metricsp"
    THEN IF ~check_bearer_auth(req) THEN InternalAnswer(TRUE, 400, "Bad Request")
         ELSE InternalAnswer(TRUE, 200, "to_prometheus")
    ELSE IF req.path = "/ping" THEN InternalAnswer(TRUE, 200, "status OK")
    ELSE IF req.path = "/version"
    THEN IF ~check_bearer_auth(req) THEN InternalAnswer(TRUE, 400, "Bad Request")
         ELSE InternalAnswer(TRUE, 200, "pod_name version")
    ELSE InternalAnswer(FALSE, 0, "")

InitInternal ==
    /\ InitWith(PoolSize, QueueCapacity)
    /\ sq = NoQueue /\ px = NoParser /\ hx = NoHandler /\ tp = NoPool
    /\ vx = NoValidation /\ rs = NoResponseUnit /\ sb = NoBuffer /\ ka = NoKeepAlive
    /\ \E req \in InternalRequests :
          ia = [stage |-> "received", req |-> req, answer |-> InternalAnswer(FALSE, 0, "")]

\* process_request calls handle_internal_api
IaHandle ==
    /\ ia.stage = "received"
    /\ ia' = [ia EXCEPT !.stage = "handled", !.answer = handle_internal_api(ia.req)]
    /\ UNCHANGED <<ShardVars, sq, px, hx, tp, vx, rs, sb, ka>>

NextInternal == IaHandle
SpecInternal == InitInternal /\ [][NextInternal]_vars

\* ------------------------------------------------------ the validator unit
\* One validator (its rules in declaration order) run over one request: the
\* form/query map m_params and the JSON payload, each giving a text for a
\* parameter name or nothing.
Missing == "<missing>"
ParamNames == {"a", "b"}
ParamTexts == {"7", "-1", "x", ""}
JsonTexts == {"7", "x"}
NoPayload == [name \in ParamNames |-> Missing]
ValidatorRules ==
    [name : ParamNames, req : {"required", "optional"}, type : {"int", "string"}]
ValidatorInputs ==
    [m_params : [ParamNames -> ParamTexts \cup {Missing}],
     m_jsonPayload : [ParamNames -> JsonTexts \cup {Missing}],
     rules : SeqsUpTo(ValidatorRules, MaxRules)]

\* std::from_chars into an int, the whole text consumed
from_chars_int(text) ==
    CASE text = "7" -> [ok |-> TRUE, value |-> 7]
      [] text = "-1" -> [ok |-> TRUE, value |-> -1]
      [] OTHER -> [ok |-> FALSE, value |-> 0]

\* (mutant) the lookup of request::get_value taking the JSON payload first
LookupJsonFirst(input, param_name) ==
    IF input.m_jsonPayload[param_name] # Missing THEN input.m_jsonPayload[param_name]
    ELSE input.m_params[param_name]

\* request::get_value: where the text of the parameter comes from
Lookup(input, param_name) ==
    IF input.m_params[param_name] # Missing THEN input.m_params[param_name]
    ELSE input.m_jsonPayload[param_name]

\* request::get_value<t>: "error" (param_error), "nothing" (an empty optional)
\* or "value"
get_value(input, param_name, type) ==
    LET text == Lookup(input, param_name)
    IN IF text = Missing THEN [kind |-> "nothing", text |-> text]
       ELSE IF type = "string" THEN [kind |-> "value", text |-> text]
       ELSE IF from_chars_int(text).ok THEN [kind |-> "value", text |-> text]
       ELSE [kind |-> "error", text |-> text]

\* The predicates of the rules: an int must be positive, a string non-empty.
predicate(type, text) ==
    IF type = "int" THEN from_chars_int(text).value > 0 ELSE text # ""

\* validator::validate_one: "ok" or the error_type of the validation_error
validate_one(input, r) ==
    LET result == get_value(input, r.name, r.type)
    IN IF result.kind = "error" THEN "invalid_format"
       ELSE IF result.kind = "nothing"
            THEN IF r.req = "required" THEN "missing_required_param" ELSE "ok"
       ELSE IF ~predicate(r.type, result.text) THEN "custom_rule_failed"
       ELSE "ok"

\* validator::validate: the rules in order, up to the first that throws
RECURSIVE validate(_, _, _)
validate(input, rules, i) ==
    IF i > Len(rules) THEN [error |-> "ok", rule |-> 0, evaluated |-> Len(rules)]
    ELSE IF validate_one(input, rules[i]) # "ok"
         THEN [error |-> validate_one(input, rules[i]), rule |-> i, evaluated |-> i]
    ELSE validate(input, rules, i + 1)

InitValidator ==
    /\ InitWith(PoolSize, QueueCapacity)
    /\ sq = NoQueue /\ px = NoParser /\ hx = NoHandler /\ tp = NoPool
    /\ ia = NoInternal /\ rs = NoResponseUnit /\ sb = NoBuffer /\ ka = NoKeepAlive
    /\ \E input \in ValidatorInputs :
          vx = [stage |-> "dispatched", input |-> input,
                result |-> [error |-> "ok", rule |-> 0, evaluated |-> 0], status |-> 0]

\* execute_handler: the endpoint's validator runs; a validation_error becomes
\* a 400 response, otherwise the handler goes on to answer.
VxValidate ==
    /\ vx.stage = "dispatched"
    /\ LET result == validate(vx.input, vx.input.rules, 1)
       IN vx' = [vx EXCEPT !.stage = "validated", !.result = result,
                           !.status = IF result.error = "ok" THEN 200 ELSE 400]
    /\ UNCHANGED <<ShardVars, sq, px, hx, tp, ia, rs, sb, ka>>

NextValidator == VxValidate
SpecValidator == InitValidator /\ [][NextValidator]_vars

\* ------------------------------------------------------ the response unit
\* One http::response and the calls made on it.  The serialized buffer is the
\* sequence of its parts (the Date header, which depends on the clock, is left
\* out); "none" stands for an empty optional.
ResponseOrigins == {"none", "", "allowed", "foreign"}
Statuses == {200, 400, 500}
Bodies == {"", "{}", "abc"}
ContentTypes == {"application/json; charset=utf-8", "text/plain"}
Dispositions == {"attachment", "inline"}
BodySize(body) == CASE body = "" -> 0 [] body = "{}" -> 2 [] OTHER -> 3
NoStatus == 0

\* response::response
NewResponse(origin) ==
    [m_buffer |-> <<>>, m_readPos |-> 0, m_finalized |-> FALSE,
     m_origin |-> IF origin # "none" /\ origin # "" THEN origin ELSE "none",
     m_status |-> NoStatus]

cors_header(r) ==
    IF r.m_origin # "none" THEN <<<<"Access-Control-Allow-Origin", r.m_origin>>>> ELSE <<>>

\* response::set_body
set_body(r, s, body, content_type) ==
    IF r.m_finalized THEN r
    ELSE [r EXCEPT !.m_status = s,
                   !.m_buffer = @ \o <<<<"HTTP/1.1", s>>>> \o cors_header(r)
                                  \o <<<<"Content-Type", content_type>>,
                                       <<"Content-Length", BodySize(body)>>,
                                       <<"body", body>>>>,
                   !.m_finalized = TRUE]

\* response::set_blob
set_blob(r, blob_data, content_type, content_disposition) ==
    IF r.m_finalized THEN r
    ELSE [r EXCEPT !.m_buffer = @ \o <<<<"HTTP/1.1", 200>>>> \o cors_header(r)
                                  \o <<<<"Content-Type", content_type>>,
                                       <<"Content-Disposition", content_disposition>>,
                                       <<"Content-Length", BodySize(blob_data)>>,
                                       <<"body", blob_data>>>>,
                   !.m_finalized = TRUE]

\* (mutant) set_options without the test of m_finalized
SetOptionsAgain(r) ==
    [r EXCEPT !.m_buffer = @ \o <<<<"HTTP/1.1", 204>>>> \o cors_header(r)
                             \o <<<<"Content-Length", 0>>>>,
              !.m_finalized = TRUE]

\* response::set_options
set_options(r) ==
    IF r.m_finalized THEN r
    ELSE [r EXCEPT !.m_buffer = @ \o <<<<"HTTP/1.1", 204>>>> \o cors_header(r)
                                  \o <<<<"Content-Length", 0>>>>,
                   !.m_finalized = TRUE]

InitResponse ==
    /\ InitWith(PoolSize, QueueCapacity)
    /\ sq = NoQueue /\ px = NoParser /\ hx = NoHandler /\ tp = NoPool
    /\ ia = NoInternal /\ vx = NoValidation /\ sb = NoBuffer /\ ka = NoKeepAlive
    /\ \E origin \in ResponseOrigins :
          rs = [stage |-> "built", r |-> NewResponse(origin), calls |-> <<>>,
                before |-> NewResponse(origin)]

\* The calls made so far are kept by name; before is the response as the last
\* call found it.
Called(name, r) ==
    /\ Len(rs.calls) < MaxCalls
    /\ rs' = [rs EXCEPT !.stage = "called", !.r = r, !.calls = Append(@, name),
                        !.before = rs.r]
    /\ UNCHANGED <<ShardVars, sq, px, hx, tp, ia, vx, sb, ka>>

RsSetBody ==
    \E s \in Statuses, body \in Bodies, content_type \in ContentTypes :
        Called("set_body", set_body(rs.r, s, body, content_type))

RsSetBlob ==
    \E blob_data \in Bodies, content_type \in ContentTypes, disposition \in Dispositions :
        Called("set_blob", set_blob(rs.r, blob_data, content_type, disposition))

RsSetOptions == Called("set_options", set_options(rs.r))

NextResponse == RsSetBody \/ RsSetBlob \/ RsSetOptions
SpecResponse == InitResponse /\ [][NextResponse]_vars

\* ---------------------------------------------------- the buffer unit alone
\* The socket_buffer of one connection, filled by handle_socket_read: a client
\* sends a request of `total` bytes, every read takes some of the bytes not yet
\* read, at most the writable tail, and commits them with update_pos.  Sizes
\* are counted in units of which ChunkSize make a chunk (4096 bytes in the
\* code) and MaxChunks chunks the largest buffer (1024 chunks in the code).
k_chunk_size == ChunkSize
k_max_size == MaxChunks * ChunkSize
RequestSizes == 1..(k_max_size + 1)

\* socket_buffer(): one chunk, nothing committed
NewBuffer == [m_pos |-> 0, size |-> k_chunk_size]

\* socket_buffer::available_size
available_size(b) == b.size - b.m_pos

\* socket_buffer::update_pos: the buffer afterwards, and whether it threw
\* socket_buffer_error
socket_update_pos(b, n) ==
    IF n <= 0 THEN [b |-> b, thrown |-> FALSE]
    ELSE LET pos == b.m_pos + n
         IN IF pos * 4 > b.size * 3
            THEN IF b.size >= k_max_size
                 THEN [b |-> [b EXCEPT !.m_pos = pos], thrown |-> TRUE]
                 ELSE [b |-> [m_pos |-> pos,
                              size |-> Min(b.size + k_chunk_size, k_max_size)],
                       thrown |-> FALSE]
            ELSE [b |-> [b EXCEPT !.m_pos = pos], thrown |-> FALSE]

InitBuffer ==
    /\ InitWith(PoolSize, QueueCapacity)
    /\ sq = NoQueue /\ px = NoParser /\ hx = NoHandler /\ tp = NoPool
    /\ ia = NoInternal /\ vx = NoValidation /\ rs = NoResponseUnit
    /\ ka = NoKeepAlive
    /\ \E total \in RequestSizes :
          sb = [stage |-> "reading", total |-> total, b |-> NewBuffer,
                before |-> NewBuffer, n |-> 0]

\* handle_socket_read, one turn of its loop while the client has bytes to give:
\* an empty span closes the connection, otherwise read() returns some bytes,
\* update_pos commits them, and socket_buffer_error closes the connection.
\* When the last byte is committed on_read finds the request complete.
SbRead ==
    /\ sb.stage = "reading"
    /\ IF available_size(sb.b) = 0
       THEN sb' = [sb EXCEPT !.stage = "closed", !.before = sb.b, !.n = 0]
       ELSE \E n \in 1..Min(available_size(sb.b), sb.total - sb.b.m_pos) :
              LET u == socket_update_pos(sb.b, n)
              IN sb' = [sb EXCEPT
                          !.stage = IF u.thrown THEN "closed"
                                    ELSE IF u.b.m_pos = sb.total THEN "complete"
                                    ELSE "reading",
                          !.b = u.b,
                          !.before = sb.b,
                          !.n = n]
    /\ UNCHANGED <<ShardVars, sq, px, hx, tp, ia, vx, rs, ka>>

NextBuffer == SbRead
SpecBuffer == InitBuffer /\ [][NextBuffer]_vars

\* ------------------------------------------------ the keep-alive unit alone
\* One connection that stays open over several requests.  The client sends
\* complete GET requests, one or several at a time; they wait in the socket
\* until on_read takes them.  socket and buffer count the complete requests in
\* the kernel's receive queue and in the parser's buffer; sent and answered
\* count what the client has sent and the responses written to it.
InitKeepAlive ==
    /\ InitWith(PoolSize, QueueCapacity)
    /\ sq = NoQueue /\ px = NoParser /\ hx = NoHandler /\ tp = NoPool
    /\ ia = NoInternal /\ vx = NoValidation /\ rs = NoResponseUnit /\ sb = NoBuffer
    /\ ka = [stage |-> "reading", sent |-> 0, socket |-> 0, buffer |-> 0,
             answered |-> 0]

\* The client sends n further requests.
KaSend ==
    /\ ka.stage # "none"
    /\ \E n \in 1..(MaxSent - ka.sent) :
          ka' = [ka EXCEPT !.sent = @ + n, !.socket = @ + n]
    /\ UNCHANGED <<ShardVars, sq, px, hx, tp, ia, vx, rs, sb>>

\* on_read: handle_socket_read reads until EAGAIN, so that everything in the
\* socket is in the parser's buffer; eof() holds as soon as the first request
\* is complete and process_request moves the parser, buffer included, into the
\* request and removes the read interest.
KaOnRead ==
    /\ ka.stage = "reading"
    /\ ka.socket > 0
    /\ ka' = [ka EXCEPT !.buffer = @ + ka.socket, !.socket = 0,
                        !.stage = "handed_off"]
    /\ UNCHANGED <<ShardVars, sq, px, hx, tp, ia, vx, rs, sb>>

\* process_response_queue: the response is attached, the connection armed for
\* writing.
KaAttach ==
    /\ ka.stage = "handed_off"
    /\ ka' = [ka EXCEPT !.stage = "writing"]
    /\ UNCHANGED <<ShardVars, sq, px, hx, tp, ia, vx, rs, sb>>

\* on_write with the whole response written: connection_state::reset gives
\* the connection a new, empty parser, and the read interest is registered
\* again (the bytes still in the socket raise a new event).
KaOnWrite ==
    /\ ka.stage = "writing"
    /\ ka' = [ka EXCEPT !.stage = "reading", !.answered = @ + 1, !.buffer = 0]
    /\ UNCHANGED <<ShardVars, sq, px, hx, tp, ia, vx, rs, sb>>

NextKeepAlive == KaSend \/ KaOnRead \/ KaAttach \/ KaOnWrite
SpecKeepAlive == InitKeepAlive /\ [][NextKeepAlive]_vars

\* ------------------------------------------------------- the idle sweep
\* A running shard that holds connections idle for about READ_TIMEOUT, with a
\* clock that advances second by second once every connection is within
\* SweepWindow of READ_TIMEOUT (and by TickSeconds at any time): its event loop
\* with reads that do not complete a request, hangups, new connections and
\* the sweep.
IdleTimes == {0} \cup (READ_TIMEOUT - SweepWindow .. READ_TIMEOUT + 1)
IdleTables == [Fds -> IdleTimes \cup {None}]

InitSweep ==
    /\ \E idle \in IdleTables :
         LET open == {fd \in Fds : idle[fd] # None}
             rank(fd) == Cardinality({g \in open : g <= fd})
         IN /\ m_connections = [fd \in Fds |->
                 IF fd \in open THEN [NewConn(rank(fd)) EXCEPT !.idle = idle[fd]]
                 ELSE NoConn]
            /\ epoll = [fd \in Fds |-> IF fd \in open THEN "in" ELSE "none"]
            /\ accepted = Cardinality(open)
            /\ metrics_connections = Cardinality(open)
    /\ m_num_threads = PoolSize
    /\ m_queue_capacity = QueueCapacity
    /\ m_running = TRUE
    /\ m_response_queue = <<>>
    /\ m_task_queues = [w \in Workers |-> <<>>]
    /\ m_next_queue = 0
    /\ executing = [w \in Workers |-> NoTask]
    /\ io_pc = "wait"
    /\ events = [fds |-> {}, listen |-> FALSE]
    /\ m_active_threads = 0
    /\ ev = NoEv
    /\ requests = 0
    /\ orphans = {}
    /\ sq = NoQueue /\ UnitsAtRest

Second ==
    /\ \A fd \in Fds :
          IsOpen(m_connections, fd) => m_connections[fd].idle >= READ_TIMEOUT - SweepWindow
    /\ Advance(1)

NextSweep ==
    \/ EpollWait
    \/ OnConnect
    \/ \E fd \in Fds : OnHangup(fd) \/ OnReadPartial(fd)
    \/ ProcessResponseQueue
    \/ CheckTimeouts
    \/ Second
    \/ Tick
SpecSweep == InitSweep /\ [][NextSweep]_vars

\* ------------------------------------------------- a request handed off
\* A running shard just after the request of the connection on descriptor 1
\* was handed to a worker: its task is queued, or executing, or its response is
\* on the response queue, or that response was lost on a full response queue
\* (the task is over, the gauge was left incremented).  Every descriptor was
\* accepted once; the other connections are open and quiet, or gone.  The loop
\* always goes on (epoll_wait has a timeout), a second passes between two
\* sweeps sooner or later, and time passes while a connection is not yet past
\* READ_TIMEOUT; nothing is assumed of the clients nor of how long a handler
\* runs.
Situations == {"queued", "executing", "pushed", "lost"}

InitHandedOff ==
    \E situation \in Situations, others \in SUBSET (Fds \ {1}) :
        LET task == [fd |-> 1, id |-> 1, rq |-> 1, while_running |-> TRUE]
            item == [client_fd |-> 1, from |-> 1, rq |-> 1]
        IN /\ m_connections = [fd \in Fds |->
                 IF fd = 1 THEN [NewConn(1) EXCEPT !.parser = "moved"]
                 ELSE IF fd \in others THEN NewConn(fd) ELSE NoConn]
           /\ epoll = [fd \in Fds |-> IF fd \in others THEN "in" ELSE "none"]
           /\ accepted = MaxAccepts
           /\ metrics_connections = 1 + Cardinality(others)
           /\ m_num_threads = PoolSize
           /\ m_queue_capacity = QueueCapacity
           /\ m_running = TRUE
           /\ m_response_queue = IF situation = "pushed" THEN <<item>> ELSE <<>>
           /\ m_task_queues = [w \in Workers |->
                 IF w = 1 /\ situation = "queued" THEN <<task>> ELSE <<>>]
           /\ m_next_queue = 1 % PoolSize
           /\ executing = [w \in Workers |->
                 IF w = 1 /\ situation = "executing" THEN task ELSE NoTask]
           /\ io_pc = "wait"
           /\ events = [fds |-> {}, listen |-> FALSE]
           /\ m_active_threads = IF situation \in {"executing", "lost"} THEN 1 ELSE 0
           /\ ev = NoEv
           /\ requests = IF situation = "lost" THEN MaxRequests ELSE MaxRequests - 1
           /\ orphans = {}
           /\ sq = NoQueue /\ UnitsAtRest

\* A step of the I/O thread inside its loop.
IoStep ==
    \/ EpollWait
    \/ \E fd \in Fds : OnHangup(fd) \/ OnReadClose(fd) \/ OnReadPartial(fd)
                         \/ OnReadRequest(fd) \/ OnWrite(fd)
    \/ ProcessResponseQueue
    \/ CheckTimeouts

NextHandedOff ==
    \/ IoStep
    \/ \E w \in Workers : WorkerPop(w) \/ WorkerFinish(w)
    \/ Tick

SpecHandedOff ==
    /\ InitHandedOff /\ [][NextHandedOff]_vars
    /\ WF_vars(IoStep)
    /\ SF_vars(ProcessResponseQueue /\ io_pc' = "timeouts")
    /\ WF_vars(Tick)

\* ------------------------------------------------------ the pool unit alone
\* One thread_pool: the I/O thread pushes tasks (numbered in the order of the
\* push_task calls, each one returning normally or throwing), every worker
\* consumes its own queue, and the owner calls stop() once the I/O thread has
\* returned.  accepted and finished record, per worker queue, the tasks whose
\* push succeeded and the tasks whose execution ended.

NewPool ==
    [m_task_queues |-> [w \in Workers |-> <<>>],
     m_next_queue |-> 0,
     m_stopped |-> FALSE,
     queue_stopped |-> [w \in Workers |-> FALSE],
     executing |-> [w \in Workers |-> NoJob],
     exited |-> [w \in Workers |-> FALSE],
     throws |-> {},
     accepted |-> [w \in Workers |-> <<>>],
     finished |-> [w \in Workers |-> <<>>],
     stage |-> "started"]

InitPool ==
    /\ InitWith(PoolSize, QueueCapacity)
    /\ sq = NoQueue /\ px = NoParser /\ hx = NoHandler /\ MoreAtRest
    /\ tp = NewPool

TasksPushed == tp.m_next_queue

\* thread_pool::push_task, called by the I/O thread
TpPushTask ==
    /\ ~tp.m_stopped
    /\ TasksPushed < MaxTasks
    /\ \E does_throw \in BOOLEAN :
         LET w == (tp.m_next_queue % m_num_threads) + 1
             job == TasksPushed + 1
             full == QueueFull(tp.m_task_queues[w], TaskQueueCapacity)
         IN tp' = [tp EXCEPT
                     !.m_next_queue = @ + 1,
                     !.m_task_queues[w] = QueuePush(@, TaskQueueCapacity, job),
                     !.accepted[w] = IF full THEN @ ELSE Append(@, job),
                     !.throws = IF does_throw THEN @ \cup {job} ELSE @]
    /\ UNCHANGED <<ShardVars, sq, px, hx, More>>

\* (mutant) a worker that takes its task from any queue of the pool
TpWorkerPopSteals(w) ==
    /\ ~tp.exited[w]
    /\ tp.executing[w] = NoJob
    /\ \E v \in Workers :
         /\ tp.m_task_queues[v] # <<>>
         /\ LET popped == wait_and_pop(tp.m_task_queues[v], tp.queue_stopped[v])
            IN tp' = [tp EXCEPT !.m_task_queues[v] = popped.queue,
                                !.executing[w] = popped.item]
    /\ UNCHANGED <<ShardVars, sq, px, hx, More>>

\* worker_loop: wait_and_pop returns a task
TpWorkerPop(w) ==
    /\ ~tp.exited[w]
    /\ tp.executing[w] = NoJob
    /\ tp.m_task_queues[w] # <<>> \/ tp.queue_stopped[w]
    /\ LET popped == wait_and_pop(tp.m_task_queues[w], tp.queue_stopped[w])
       IN /\ popped.item # NoJob
          /\ tp' = [tp EXCEPT !.m_task_queues[w] = popped.queue,
                              !.executing[w] = popped.item]
    /\ UNCHANGED <<ShardVars, sq, px, hx, More>>

\* worker_loop: wait_and_pop returns nullopt, the worker leaves its loop
TpWorkerExit(w) ==
    /\ ~tp.exited[w]
    /\ tp.executing[w] = NoJob
    /\ tp.m_task_queues[w] # <<>> \/ tp.queue_stopped[w]
    /\ wait_and_pop(tp.m_task_queues[w], tp.queue_stopped[w]).item = NoJob
    /\ tp' = [tp EXCEPT !.exited[w] = TRUE]
    /\ UNCHANGED <<ShardVars, sq, px, hx, More>>

\* worker_loop: the task returns
TpTaskReturns(w) ==
    /\ tp.executing[w] # NoJob
    /\ tp.executing[w] \notin tp.throws
    /\ tp' = [tp EXCEPT !.executing[w] = NoJob,
                        !.finished[w] = Append(@, tp.executing[w])]
    /\ UNCHANGED <<ShardVars, sq, px, hx, More>>

\* (mutant) worker_loop without its try block: the exception ends the loop
TpTaskThrowsEndsLoop(w) ==
    /\ tp.executing[w] # NoJob
    /\ tp.executing[w] \in tp.throws
    /\ tp' = [tp EXCEPT !.executing[w] = NoJob,
                        !.finished[w] = Append(@, tp.executing[w]),
                        !.exited[w] = TRUE]
    /\ UNCHANGED <<ShardVars, sq, px, hx, More>>

\* worker_loop: the task throws, the exception is caught and logged
TpTaskThrows(w) ==
    /\ tp.executing[w] # NoJob
    /\ tp.executing[w] \in tp.throws
    /\ tp' = [tp EXCEPT !.executing[w] = NoJob,
                        !.finished[w] = Append(@, tp.executing[w])]
    /\ UNCHANGED <<ShardVars, sq, px, hx, More>>

\* thread_pool::stop: the flag, then stop() on every queue
TpStop ==
    /\ ~tp.m_stopped
    /\ tp' = [tp EXCEPT !.m_stopped = TRUE,
                        !.queue_stopped = [w \in Workers |-> TRUE],
                        !.stage = "stopping"]
    /\ UNCHANGED <<ShardVars, sq, px, hx, More>>

\* thread_pool::stop: m_threads.clear() has joined every worker
TpStopReturns ==
    /\ tp.stage = "stopping"
    /\ \A w \in Workers : tp.exited[w]
    /\ tp' = [tp EXCEPT !.stage = "stopped"]
    /\ UNCHANGED <<ShardVars, sq, px, hx, More>>

NextPool ==
    \/ TpPushTask
    \/ \E w \in Workers : TpWorkerPop(w) \/ TpWorkerExit(w)
                            \/ TpTaskReturns(w) \/ TpTaskThrows(w)
    \/ TpStop
    \/ TpStopReturns
SpecPool == InitPool /\ [][NextPool]_vars

\* ================================================================== claims
\* What is still under way for connection id: tasks queued or executing,
\* responses queued, responses attached and not yet written.
CountIn(q, P(_)) == Cardinality({i \in 1..Len(q) : P(q[i])})

RECURSIVE SumOver(_, _)
SumOver(f, S) ==
    IF S = {} THEN 0
    ELSE LET x == CHOOSE y \in S : TRUE IN f[x] + SumOver(f, S \ {x})

OutstandingOf(id) ==
    LET IsTask(x) == x.id = id
        IsItem(x) == x.from = id
    IN SumOver([w \in Workers |-> CountIn(m_task_queues[w], IsTask)
                                  + (IF executing[w].id = id THEN 1 ELSE 0)], Workers)
       + CountIn(m_response_queue, IsItem)
       + Cardinality({fd \in Fds : IsOpen(m_connections, fd)
                                   /\ m_connections[fd].response.from = id})

\* The step just taken pushed one response, for the request it handled.
PushedOne ==
    /\ ev.pushed = 1
    /\ ~ev.full
    /\ m_response_queue # <<>>
    /\ m_response_queue[Len(m_response_queue)] =
         [client_fd |-> ev.fd, from |-> ev.id, rq |-> ev.rq]

\* The step just taken found the response queue full and pushed nothing.
PushedNoneQueueFull == ev.pushed = 0 /\ ev.full

\* C1: every request whose finalize() succeeded gets exactly one
\* response item, on every path: the inline paths push one in process_request,
\* a dispatched request gets the one its task pushes.
C1_ExactlyOneResponse ==
    /\ (ev.op = "process_request" /\ ev.ok /\ ev.path # "dispatch") => PushedOne
    /\ (ev.op = "task_done") => PushedOne

C3_DrainCompletesInFlight ==
    io_pc = "returned" =>
        /\ \A w \in Workers :
              /\ ~executing[w].while_running
              /\ \A i \in 1..Len(m_task_queues[w]) : ~m_task_queues[w][i].while_running
        /\ \A fd \in Fds : m_connections[fd].response.left = 0

\* C4: while a request of a connection is under way (handed off, its response
\* not yet fully written), the connection has no read interest, and it never
\* has two requests under way.
C4_OneRequestInFlight ==
    \A fd \in Fds : IsOpen(m_connections, fd) =>
        /\ OutstandingOf(m_connections[fd].id) > 0 => epoll[fd] # "in"
        /\ OutstandingOf(m_connections[fd].id) <= 1

\* C5: a dispatch that finds the selected task queue holding QUEUE_CAPACITY
\* items fails and is answered 503.
C5_FullTaskQueueRejects ==
    (ev.op = "process_request" /\ ev.path \in {"dispatch", "overload503"}
       /\ ev.qlen >= m_queue_capacity) =>
        (ev.path = "overload503" /\ ev.tasks = 0)

\* C6: a push that fails with queue_full_error leaves the queue as it was, and
\* the rejected item is never in the queue nor taken by the consumer.
C6_FailedPushAddsNothing ==
    /\ sq.last = "queue_full" => sq.queue = sq.before
    /\ \A x \in sq.rejected :
          /\ x \notin sq.popped
          /\ \A i \in 1..Len(sq.queue) : sq.queue[i] # x

\* C6 witness: a push has just failed on a full queue.
C6_Witness == sq.last = "queue_full" /\ sq.capacity > 0 /\ Len(sq.queue) = sq.capacity

\* C7: with POOL_SIZE=1 and QUEUE_CAPACITY=2, a dispatch that finds two
\* requests in the pool (one running, one pending) is answered 503.
C7_ThirdRequestGets503 ==
    (ev.op = "process_request" /\ ev.path \in {"dispatch", "overload503"}
       /\ ev.qlen = 1 /\ executing[1] # NoTask) =>
        (ev.path = "overload503" /\ ev.tasks = 0)

\* C8: whenever a push onto the response queue fails because the queue is full,
\* the connection the response was for is closed.
C8_FullResponseQueueCloses ==
    (ev.op \in {"process_request", "task_done"} /\ ev.full) =>
        m_connections[ev.fd].id # ev.id

\* C9: the push of a finished handler's response never fails.
C9_WorkerPushNeverFails == ev.op = "task_done" => ~ev.full

\* C10: the response of a connection that was closed while a worker executed
\* its request is dropped by process_response_queue, never attached.
C10_OrphanResponseDropped ==
    ev.op = "process_response_queue" => ev.misdelivered = {}


\* The MFA endpoint the security gate is configured with (MFA_URI).
configured_mfa_path == "/validate/totp"

\* The request unit has run execute_handler on a secure endpoint.
SecureHandled ==
    /\ hx.stage = "answered"
    /\ hx.route = "dispatch"
    /\ Catalog[hx.req.path].is_secure

\* C11: on a secure endpoint the handler runs with a valid token only when
\* (preauth claim is "true") equals (path is the MFA path); otherwise the
\* request is answered 401 and the handler is not executed.
C11_PreauthOnlyOnMfaPath ==
    (SecureHandled /\ hx.req.method = Catalog[hx.req.path].method
       /\ validate_token(hx.req)
       /\ hx.req.authorization.token.preauth # (hx.req.path = configured_mfa_path)) =>
        (~hx.outcome.invoked /\ hx.response.status = 401)

\* C12: the handler is invoked only if the method matches, then (on a secure
\* endpoint) a bearer token is present and valid, then the validator raised
\* nothing; the first failing check answers 400, 401 or 400 and the handler is
\* not invoked.
C12_HandlerGuards ==
    (hx.stage = "answered" /\ hx.route = "dispatch") =>
        LET req == hx.req
            endpoint == Catalog[req.path]
            method_ok == req.method = endpoint.method
            token_ok == ~endpoint.is_secure
                        \/ (req.authorization.scheme = "Bearer"
                            /\ req.authorization.token.format_ok
                            /\ req.authorization.token.signature_ok
                            /\ req.authorization.token.exp = "future")
            input_ok == ~endpoint.rules \/ req.valid_input
        IN /\ hx.outcome.invoked <=> (method_ok /\ token_ok /\ input_ok)
           /\ ~method_ok => hx.response.status = 400
           /\ (method_ok /\ ~token_ok) => (hx.response.status = 401 /\ ~hx.outcome.validated)
           /\ (method_ok /\ token_ok /\ ~input_ok) => hx.response.status = 400
           /\ hx.outcome.validated => (method_ok /\ token_ok)

\* C12 witness: a request with the wrong method and a bad token on a secure
\* endpoint was answered 400 without the handler.
C12_Witness ==
    /\ SecureHandled
    /\ hx.req.method # Catalog[hx.req.path].method
    /\ ~validate_token(hx.req)
    /\ hx.response.status = 400
    /\ ~hx.outcome.invoked

Announced(req) ==
    LET value == from_chars(FirstContentLength(req.headers))
    IN IF value = None THEN 0 ELSE value
CompleteRequest ==
    /\ px.stage \in {"reading", "processed"}
    /\ px.p.header
    /\ px.p.body = px.req.body_len
    /\ px.req.method \in {"GET", "POST", "OPTIONS"}
    /\ Announced(px.req) <= px.req.body_len

ForbiddenUri(uri) ==
    Contains(uri, "?") \/ Contains(uri, "%") \/ Contains(uri, "\\") \/ ContainsDotDot(uri)

HasTransferEncoding(req) ==
    \E i \in 1..Len(req.headers) :
        req.headers[i].colon
        /\ req.headers[i].key \in {"Transfer-Encoding", "transfer-encoding"}

\* C13: a request whose URI contains ?, .., % or \ is answered 400 once it has
\* been received, and is never routed, whatever its method and headers.
C13_ForbiddenUriRejected ==
    (px.stage # "none" /\ ForbiddenUri(px.req.uri)) =>
        /\ px.result # "routed"
        /\ CompleteRequest => px.result = "400"

\* C14: a request that carries a Transfer-Encoding header (any letter case) is
\* answered 400 once it has been received, and is never routed, with or
\* without a Content-Length header and whatever its method.
C14_TransferEncodingRejected ==
    (px.stage # "none" /\ HasTransferEncoding(px.req)) =>
        /\ px.result # "routed"
        /\ CompleteRequest => px.result = "400"

\* C15: a POST is reported complete by eof(), or finalized, only when at least
\* header_size + content_length bytes are buffered; finalize() before that
\* returns an error and leaves the parser unfinalized.
C15_PostCompleteOnlyWithBody ==
    (px.stage # "none" /\ px.req.method = "POST") =>
        LET needed == HeaderSize(px.req) + Announced(px.req)
        IN /\ (px.eof \/ px.p.m_isFinalized) => BufferSize(px.p, px.req) >= needed
           /\ (px.stage = "finalize_called" /\ BufferSize(px.p, px.req) < needed) =>
                 (px.result = "error" /\ ~px.p.m_isFinalized)


\* The tasks of a sequence, and whether none occurs twice in it.
Range(q) == {q[i] : i \in 1..Len(q)}
NoRepeat(q) == Cardinality(Range(q)) = Len(q)

\* C16: for every worker queue, the tasks accepted by push are exactly those
\* finished, executing or pending, each once; none is lost or duplicated when
\* a task throws, and a worker that has left its loop after stop() has left
\* nothing pending.
C16_WorkConservation ==
    tp.stage # "none" =>
        \A w \in Workers :
            LET running == IF tp.executing[w] = NoJob THEN <<>> ELSE <<tp.executing[w]>>
                now == tp.finished[w] \o running \o tp.m_task_queues[w]
            IN /\ Len(tp.accepted[w]) =
                    Len(tp.finished[w]) + Len(running) + Len(tp.m_task_queues[w])
               /\ now = tp.accepted[w]
               /\ NoRepeat(now)
               /\ tp.exited[w] => (tp.m_task_queues[w] = <<>> /\ running = <<>>)

\* C16 witness: stop() has returned after a worker executed a task that threw
\* and then a later task of the same queue.
C16_Witness ==
    /\ tp.stage = "stopped"
    /\ \E w \in Workers : \E i \in 1..Len(tp.finished[w]) - 1 :
          tp.finished[w][i] \in tp.throws


\* The entries of the connection table.
OpenFds == {fd \in Fds : IsOpen(m_connections, fd)}

\* C17: the metrics connections counter equals the number of entries in the
\* connection table, after every accept, every close_connection and every idle
\* sweep, whatever path led there.
C17_GaugeCountsConnections == metrics_connections = Cardinality(OpenFds)

\* C17 witness: connections were accepted, one of them was closed again, and
\* another is still open.
C17_Witness ==
    /\ accepted >= 2
    /\ metrics_connections = Cardinality(OpenFds)
    /\ metrics_connections >= 1
    /\ metrics_connections < accepted


\* C18: a step of the idle sweep closes a connection if and only if it has
\* been idle for more than READ_TIMEOUT: one idle for READ_TIMEOUT or less
\* stays open, one idle for longer is gone when the sweep returns.
C18_SweepClosesExactlyExpired ==
    [][(io_pc = "timeouts" /\ io_pc' = "wait") =>
         \A fd \in Fds :
            IsOpen(m_connections, fd) =>
               (IsOpen(m_connections', fd) <=> m_connections[fd].idle <= READ_TIMEOUT)]_vars

\* C18 witness: a sweep has just closed a connection and left open one that
\* had been idle for exactly READ_TIMEOUT.
C18_Witness ==
    /\ ev.op = "check_timeouts"
    /\ ev.closed # {}
    /\ \E fd \in Fds : IsOpen(m_connections, fd) /\ m_connections[fd].idle = READ_TIMEOUT


\* C19: once the supervisor has cleared the running flag, the shard goes on to
\* leave its loop, drain and return from run(): no step it takes after that
\* ends its I/O thread in any other way.
C19_ShardReturnsAfterShutdown ==
    [][(~m_running /\ io_pc # "crashed") => io_pc' # "crashed"]_vars


\* Whether an Authorization value is "bearer " in any letter case followed by
\* exactly the key.
IsBearerOf(value, key) ==
    /\ value # NoHeader
    /\ Len(value) = 7 + Len(key)
    /\ \A i \in 1..7 : tolower(value[i]) = BearerPrefix[i]
    /\ \A i \in 1..Len(key) : value[7 + i] = key[i]
ProtectedData ==
    [path \in {"/metrics", "/metricsp", "/version"} |->
       CASE path = "/metrics" -> "to_json"
         [] path = "/metricsp" -> "to_prometheus"
         [] path = "/version" -> "pod_name version"]

\* C21: with a non-empty API_KEY, /metrics, /metricsp and /version give their
\* data only to an Authorization of "bearer " (any letter case) followed by
\* exactly API_KEY, and an error without the data otherwise; /ping gives 200
\* with status OK whatever the credential; with an empty API_KEY all four are
\* open.
C21_InternalEndpointsGate ==
    ia.stage = "handled" =>
        LET req == ia.req
            authorized == req.m_api_key = <<>> \/ IsBearerOf(req.authorization, req.m_api_key)
        IN /\ req.path \in DOMAIN ProtectedData =>
                IF authorized
                THEN ia.answer = InternalAnswer(TRUE, 200, ProtectedData[req.path])
                ELSE ia.answer.status >= 400 /\ ia.answer.body # ProtectedData[req.path]
           /\ req.path = "/ping" => ia.answer = InternalAnswer(TRUE, 200, "status OK")

\* C21 witness: with a key configured, a request for /metrics carrying the
\* key in another letter case was refused.
C21_Witness ==
    /\ ia.stage = "handled"
    /\ ia.req.path = "/metrics"
    /\ ia.req.m_api_key = <<"k">>
    /\ ia.req.authorization = <<"B", "E", "A", "R", "E", "R", " ", "K">>
    /\ ia.answer.status = 400


\* What a rule finds for its parameter: the form/query map first, the JSON
\* payload second.
TextFor(input, r) ==
    IF input.m_params[r.name] # Missing THEN input.m_params[r.name]
    ELSE input.m_jsonPayload[r.name]
WellTyped(r, text) == r.type = "string" \/ text \in {"7", "-1"}
Acceptable(r, text) == IF r.type = "int" THEN text = "7" ELSE text # ""
\* The failure of one rule as the contract words it ("ok" when it passes).
RuleFailure(input, r) ==
    LET text == TextFor(input, r)
    IN IF text = Missing
       THEN IF r.req = "required" THEN "missing_required_param" ELSE "ok"
       ELSE IF ~WellTyped(r, text) THEN "invalid_format"
       ELSE IF ~Acceptable(r, text) THEN "custom_rule_failed"
       ELSE "ok"

\* C22: the rules are evaluated in declaration order, each on the value of the
\* form/query map first and of the JSON payload second: missing and required
\* gives missing_required_param, missing and optional passes, a value failing
\* the typed parse gives invalid_format, a well-typed value failing the
\* predicate gives custom_rule_failed; the first failing rule ends the
\* validation and its failure becomes a 400 response.
C22_ValidatorRules ==
    vx.stage = "validated" =>
        LET rules == vx.input.rules
            failing == {i \in 1..Len(rules) : RuleFailure(vx.input, rules[i]) # "ok"}
        IN IF failing = {}
           THEN vx.result.error = "ok" /\ vx.status # 400
           ELSE LET first == CHOOSE i \in failing : \A j \in failing : i <= j
                IN /\ vx.result.rule = first
                   /\ vx.result.evaluated = first
                   /\ vx.result.error = RuleFailure(vx.input, rules[first])
                   /\ vx.status = 400

\* C22 witness: the first rule passed on the value of the form map although
\* the JSON payload held an ill-typed one, and the second rule failed its
\* predicate.
C22_Witness ==
    /\ vx.stage = "validated"
    /\ Len(vx.input.rules) = 2
    /\ vx.input.rules[1] = [name |-> "a", req |-> "required", type |-> "int"]
    /\ vx.input.m_params["a"] = "7" /\ vx.input.m_jsonPayload["a"] = "x"
    /\ vx.result = [error |-> "custom_rule_failed", rule |-> 2, evaluated |-> 2]
    /\ vx.status = 400


IsPrefix(p, q) == Len(p) <= Len(q) /\ \A i \in 1..Len(p) : p[i] = q[i]
\* The items that have left the queue since stop().
OutSinceStop == SubSeq(sq.out, sq.out_at_stop + 1, Len(sq.out))

\* C23: after stop() every consumer blocked in wait_and_pop has been given its
\* wake-up and leaves wait_and_pop; the items queued at the time of stop() are
\* what the following pops return, in order; a pop returns nullopt only from
\* an empty stopped queue; and no consumer blocks on a stopped queue.
C23_StopWakesAndDrains ==
    /\ [](sq.m_stopped =>
            /\ sq.waiting \subseteq sq.notified
            /\ IsPrefix(sq.at_stop, OutSinceStop \o sq.queue)
            /\ sq.last # "blocked")
    /\ [](sq.last = "nullopt" => (sq.m_stopped /\ sq.before = <<>>))
    /\ [](sq.m_stopped => <>(sq.waiting = {}))

\* C23 witness: stop() has just run on a queue that holds items while every
\* consumer is still blocked in wait_and_pop, and has notified them all.
C23_Witness ==
    /\ sq.last = "stopped"
    /\ sq.waiting = Consumers
    /\ sq.notified = Consumers
    /\ sq.at_stop # <<>>

\* The items whose push succeeded, in the order of the pushes.
RECURSIVE Ascending(_, _)
Ascending(S, n) ==
    IF n = 0 THEN <<>>
    ELSE IF n \in S THEN Append(Ascending(S, n - 1), n) ELSE Ascending(S, n - 1)
Accepted == Ascending((1..sq.next - 1) \ sq.rejected, sq.next - 1)

\* C24: the items that have left the queue through wait_and_pop and drain_to,
\* followed by those still in it, are the items whose pushes succeeded, in the
\* order of those pushes.
C24_Fifo == sq.out \o sq.queue = Accepted

\* C24 witness: two items or more have left the queue, a push was refused,
\* and an item pushed later is still queued.
C24_Witness ==
    /\ Len(sq.out) >= 2
    /\ sq.rejected # {}
    /\ sq.queue # <<>>
    /\ sq.last = "pushed"


\* C25: once one of set_body, set_blob and set_options has run on a response,
\* a later call of any of the three leaves the serialized buffer and the
\* status as they were.
C25_FinalizedOnce ==
    (rs.stage = "called" /\ Len(rs.calls) >= 2) =>
        (rs.r.m_buffer = rs.before.m_buffer /\ rs.r.m_status = rs.before.m_status)

\* C25 witness: set_options was called on a response that set_body had
\* finalized with status 400, and the response still says 400.
C25_Witness ==
    /\ rs.stage = "called"
    /\ rs.calls = <<"set_body", "set_options">>
    /\ rs.r.m_status = 400
    /\ rs.r.m_buffer[1] = <<"HTTP/1.1", 400>>


\* A request that no further byte can make valid: a method token other than
\* GET, POST and OPTIONS, or a POST with no Content-Length line, or a POST
\* whose first Content-Length value is not a number.
Hopeless(req) ==
    \/ req.method \notin {"GET", "POST", "OPTIONS"}
    \/ /\ req.method = "POST"
       /\ from_chars(FirstContentLength(req.headers)) = None

\* C26: once the header section of such a request has been read, on_read has
\* had it processed and answered with the parse error; it is not left waiting
\* for more bytes.
C26_HopelessRequestRejected ==
    (px.stage \in {"reading", "processed"} /\ px.p.header /\ Hopeless(px.req)) =>
        px.result = "400"


C28_WriteProgress ==
    ev.op = "on_write" =>
        LET conn == m_connections[ev.fd]
        IN CASE ev.result = "eagain" ->
                  /\ conn.id = ev.id
                  /\ conn.response.left = ev.left - ev.written
                  /\ conn.response.left > 0
                  /\ conn.parser = ev.parser
                  /\ epoll[ev.fd] = "out"
             [] ev.result = "done" ->
                  /\ ev.written = ev.left
                  /\ conn.id = ev.id
                  /\ conn.response = NoResponse
                  /\ conn.parser = "empty"
                  /\ epoll[ev.fd] = "in"
             [] OTHER -> ~IsOpen(m_connections, ev.fd)

\* C28 witness: a write that sent one byte and then would block has left the
\* response pending with one byte less.
C28_Witness ==
    /\ ev.op = "on_write"
    /\ ev.result = "eagain"
    /\ ev.written = 1
    /\ m_connections[ev.fd].response.left = ev.left - 1

\* The queue that the k-th push_task call (k counted from 0) selects.
TargetOf(k) == (k % m_num_threads) + 1

C29_RoundRobin ==
    \A w \in Workers : \A i \in 1..Len(tp.accepted[w]) :
        TargetOf(tp.accepted[w][i] - 1) = w

\* C29: the k-th push_task call, failed calls counted, targets queue k mod W
\* whatever the queues hold, and a call whose target queue is full (it holds
\* QUEUE_CAPACITY tasks) fails, so that no task queue ever holds more, even
\* while another queue has room.
C29_RoundRobinPush ==
    /\ C29_RoundRobin
    /\ \A w \in Workers : Len(tp.m_task_queues[w]) <= m_queue_capacity

\* The status the claim gives a task whose handler was invoked.
ClaimedStatus(thrown) ==
    IF thrown = "nothing" THEN 200
    ELSE IF thrown \in {"validation_error", "parsing_error"} THEN 400
    ELSE 500

C30_ExceptionStatus ==
    (hx.stage = "answered" /\ hx.route = "dispatch" /\ hx.outcome.invoked) =>
        hx.response.status = ClaimedStatus(hx.req.handler_throws)

\* C30: every task that starts executing pushes exactly one response, whether
\* its handler returns or throws: validation and JSON parsing errors give 400,
\* every other exception gives 500, and the response is on the response queue
\* when the task ends.
C30_TaskPushesOneResponse ==
    (hx.stage = "answered" /\ hx.route = "dispatch") =>
        /\ C30_ExceptionStatus
        /\ hx.pushed = 1
        /\ hx.m_response_queue # <<>>
        /\ hx.m_response_queue[Len(hx.m_response_queue)] = hx.response

\* A worker leaves its loop in this step.
LeavesLoop(w) == ~tp.exited[w] /\ tp'.exited[w]

\* A task of worker w ends in this step with an exception.
ThrowsNow(w) == tp.executing[w] \in tp.throws /\ tp'.executing[w] = NoJob

TakenBy(w) ==
    Range(tp.finished[w])
      \cup (IF tp.executing[w] = NoJob THEN {} ELSE {tp.executing[w]})

\* C32: every accepted task is executed once, by the worker of the queue it was
\* pushed to and by no other, and when stop() has returned every accepted task
\* has been executed, those pending at stop() included.
C32_OwnQueueOnly ==
    tp.stage # "none" =>
        /\ \A w \in Workers :
              /\ \A job \in TakenBy(w) : TargetOf(job - 1) = w
              /\ TakenBy(w) \subseteq Range(tp.accepted[w])
              /\ NoRepeat(tp.finished[w])
              /\ tp.executing[w] \notin Range(tp.finished[w])
        /\ \A v, w \in Workers : v # w => TakenBy(v) \cap TakenBy(w) = {}
        /\ tp.stage = "stopped" =>
              \A w \in Workers : Range(tp.finished[w]) = Range(tp.accepted[w])

\* C32 witness: stop() has returned, every worker has executed a task of its
\* own queue and one of them has executed two.
C32_Witness ==
    /\ tp.stage = "stopped"
    /\ \A w \in Workers : tp.finished[w] # <<>>
    /\ \E w \in Workers : Len(tp.finished[w]) >= 2

\* Worker w is executing the request of the connection now open on its
\* descriptor.
ExecutingFor(w) ==
    /\ executing[w] # NoTask
    /\ IsOpen(m_connections, executing[w].fd)
    /\ m_connections[executing[w].fd].id = executing[w].id

\* C33: the idle sweep never closes a connection whose request a worker is
\* executing, however long the handler has been running, so that the response
\* finds its connection when the handler finishes.
C33_NoHandlerDeadline ==
    [][(io_pc = "timeouts" /\ io_pc' = "wait") =>
         \A w \in Workers :
            ExecutingFor(w) =>
               /\ IsOpen(m_connections', executing[w].fd)
               /\ m_connections'[executing[w].fd].id = executing[w].id]_vars

\* A field of the parser that has been determined keeps its value in this step.
Kept(field, undetermined) ==
    px.p[field] # undetermined => px'.p[field] = px.p[field]

\* C34: the parser's progress is monotonic.  The header size, the method and
\* the content length never change once determined, eof() stays true once it
\* has returned true, and on a finalized parser finalize() returns success and
\* neither it nor update_pos nor eof() changes anything.
C34_ParserMonotonic ==
    [][(px.stage # "none" /\ px'.stage # "none") =>
         /\ Kept("m_identifiedHeaderSize", None)
         /\ Kept("m_identifiedMethod", "none")
         /\ Kept("m_identifiedContentLength", None)
         /\ px.eof => px'.eof
         /\ px.p.m_isFinalized =>
              /\ px'.p = px.p
              /\ px'.last.call = "finalize" => px'.last.value = "ok"]_vars

\* C34 witness: on a finalized POST request with a body, bytes were committed,
\* finalize() was called again and then eof().
C34_Witness ==
    /\ px.stage = "processed"
    /\ px.p.m_isFinalized
    /\ px.req.method = "POST" /\ px.p.body > 0
    /\ px.calls = MaxCalls
    /\ px.last = [call |-> "eof", value |-> "true"]

\* update_pos has just returned normally on the buffer unit's socket_buffer.
Committed == sb.stage \in {"reading", "complete"} /\ sb.n > 0

\* C35: after every update_pos on a buffer below the maximum size the writable
\* tail is at least one chunk, the buffer having grown by one chunk whenever
\* the used space exceeded 75% of its size; the write position never exceeds
\* the size of the buffer, nor the size the maximum.
C35_WritableTail ==
    Committed =>
        /\ sb.b.size < k_max_size => available_size(sb.b) >= k_chunk_size
        /\ sb.b.size = IF sb.b.m_pos * 4 > sb.before.size * 3
                       THEN Min(sb.before.size + k_chunk_size, k_max_size)
                       ELSE sb.before.size
        /\ sb.b.m_pos <= sb.b.size
        /\ sb.b.size <= k_max_size

\* C36: a request of at most the maximum size is never rejected because of its
\* size, one of exactly the maximum size included, which is buffered whole; a
\* request one byte longer is never buffered whole.
C36_SizeLimit ==
    sb.stage # "none" =>
        /\ sb.total <= k_max_size => sb.stage # "closed"
        /\ sb.total > k_max_size => sb.stage # "complete"

\* C37: the response a connection holds, and writes, is the response to a
\* request read from that very connection, also when the descriptor number was
\* reused by a new connection while the request of the old one was executing.
C37_ResponseOnOwnConnection ==
    \A fd \in Fds :
        (IsOpen(m_connections, fd) /\ m_connections[fd].response # NoResponse) =>
            m_connections[fd].response.from = m_connections[fd].id

\* Connection id on descriptor fd has been handed off: no event interest is
\* registered for it and no response is attached.
HandedOff(fd, id) ==
    /\ m_connections[fd].id = id
    /\ epoll[fd] = "none"
    /\ m_connections[fd].response = NoResponse

\* Connection id on descriptor fd has its response attached and is armed for
\* writing, or is closed.
Settled(fd, id) ==
    \/ m_connections[fd].id # id
    \/ (epoll[fd] = "out" /\ m_connections[fd].response # NoResponse)

Busy == {w \in Workers : executing[w] # NoTask}

\* C39: the active-threads gauge equals the number of tasks being executed: it
\* is never negative, never above the number of workers, and zero whenever no
\* task is executing, whichever way the tasks ended.
C39_GaugeCountsExecuting ==
    /\ m_active_threads = Cardinality(Busy)
    /\ m_active_threads >= 0
    /\ m_active_threads <= m_num_threads
    /\ Busy = {} => m_active_threads = 0

\* C40: no complete request received on a keep-alive connection is lost: every
\* request the client has sent has been answered, or is waiting in the socket
\* or in the parser's buffer, those read together with an earlier request
\* included.
C40_NoRequestLost ==
    ka.stage # "none" => ka.sent = ka.answered + ka.socket + ka.buffer

====
